---- MODULE Spec2Model ----
(***************************************************************************)
(* NSE dashboard backend: the symbol registry, the result cache, the       *)
(* batched fetcher fetchEquityDetailsInBatches and the two read endpoints  *)
(* built on it (GET /api/market-data, GET /api/industry-data).             *)
(*                                                                         *)
(* Node.js runs one synchronous segment at a time, so every action below   *)
(* is one segment: from the event that resumes the code (request arrival,  *)
(* a timer, a provider call settling) to the next await.                   *)
(***************************************************************************)
EXTENDS Integers, Sequences, FiniteSets, TLC

\* ------------------------------------------------------------------ bounds
MaxLen == 2
MaxTime == 301000
MaxOrphans == 1
MaxCalls == 2
RankRows == 11
RankCalls == 1
AggCalls == 2
BootCalls == 1
RetryCalls == 1
RetryLen == 3
ConcCalls == 2
NumSlots == 2
TfCalls == 2
MaxTfTime == 3602000
MaxWebTime == 7202000
WebCalls == 3
MaxRuns == 2
MaxJobSymbols == 3
JobBatchSize == 2
DeliveryCount == 2
MaxJobTime == 4000
JobRuns == 1
DbCalls == 3
JobFetchCalls == 1
LiveCalls == 1

\* ------------------------------------------------------- program constants
BATCH_SIZE == 50
BATCH_DELAY_MS == 1000
MAX_RETRIES == 5
STD_TTL == 300
RETRY_BACKOFF_MS == 1000
TOP_N == 10
TIMEFRAME_TTL == 1800
DELIVERY_TTL == 3600
AI_TTL == 7200
JOB_BATCH_DELAY_MS == 2000
DELIVERY_DELAY_MS == 1000
STATUS_LIMIT == 20
FRESH_WINDOW_MS == 300 * 1000

\* ------------------------------------------------------------ environment
Slots == 1..NumSlots

\* symbols a caller may pass to the fetcher; "X" is never in a spreadsheet
KeyUniverse == {"A", "B", "X"}

\* symbols of a larger spreadsheet
SymbolNames ==
    << "S01", "S02", "S03", "S04", "S05", "S06", "S07", "S08", "S09", "S10", "S11", "S12", "S13" >>

IndustryNames == << "Auto", "Bank", "Chem" >>

\* cells that are upper case already and carry no .NS suffix
UpperSymbols == {"A", "B"} \cup {SymbolNames[i] : i \in DOMAIN SymbolNames}

\* what toUpperCase().replace(/\.NS$/, '') makes of the raw spreadsheet cells
NormalizeSymbol(raw) ==
    CASE raw \in UpperSymbols -> raw
      [] raw = "a" -> "A"
      [] raw = "b.NS" -> "B"
      [] OTHER -> ""   \* an empty cell, or a cell that is only the suffix

\* spreadsheets the server may have been started with
Sheets ==
    { << [Symbol |-> "A", Industry |-> "Tech"], [Symbol |-> "b.NS", Industry |-> "Fin"] >>,
      << [Symbol |-> "A", Industry |-> "Tech"], [Symbol |-> "a", Industry |-> "Fin"] >> }

\* a spreadsheet of RankRows rows in three industries
RankSheets ==
    { [i \in 1..RankRows |-> [Symbol |-> SymbolNames[i], Industry |-> IndustryNames[(i % 3) + 1]]] }

\* a spreadsheet in which one symbol is listed under two industries, one industry
\* has three symbols and one industry cell is empty
AggSheets ==
    { << [Symbol |-> "A", Industry |-> " Tech "], [Symbol |-> "a", Industry |-> "Fin"],
         [Symbol |-> "b.NS", Industry |-> "Fin"], [Symbol |-> "S01", Industry |-> "Fin"],
         [Symbol |-> "S02", Industry |-> ""] >> }

\* what readExcelFile may do at startup: throw, or return rows
ReadResults ==
    { [threw |-> TRUE, rows |-> <<>>],
      [threw |-> FALSE, rows |-> <<>>],
      [threw |-> FALSE, rows |-> << [Symbol |-> "", Industry |-> "Tech"], [Symbol |-> ".NS", Industry |-> ""] >>] }
    \cup {[threw |-> FALSE, rows |-> sheet] : sheet \in Sheets}

BatchSizes == {1, BATCH_SIZE}

\* time steps the clock may take
TickSteps == {BATCH_DELAY_MS, FRESH_WINDOW_MS - BATCH_DELAY_MS, FRESH_WINDOW_MS}

NoEntry == [present |-> FALSE]

\* req.query of a request; timeframe "" stands for a request that gives none
NoQuery == [refresh |-> FALSE, timeframe |-> ""]

QueryTimeframes == {"", "1d", "2d"}

AllQueries == [refresh : BOOLEAN, timeframe : QueryTimeframes]

PlainQueries == {[refresh |-> FALSE, timeframe |-> "1d"]}

\* values Math.random may put into a generated body
MockDraws == {10, 90}

\* req.query of the two generated-data endpoints; "" is a parameter not given
DeliveryQueries == [symbol : {"", "A", "B"}, date : {"", "d1"}]

AiQueries == [leader : {"", "A", "B"}, follower : {"", "A", "B"}, timeframe : {"", "1m"}]

\* signed multipliers Math.random can produce for every historical timeframe
SimFactors == {-2, 1}

Pending == [state |-> "pending"]

\* what nseIndia.getEquityDetails(symbol) may settle with
GoodPayload(p, name) ==
    [isNull |-> FALSE, hasPriceInfo |-> TRUE, pChangeIsNumber |-> TRUE,
     lastPriceIsNumber |-> TRUE, pChange |-> p, lastPrice |-> 100, companyName |-> name]

NullPayload ==
    [isNull |-> TRUE, hasPriceInfo |-> FALSE, pChangeIsNumber |-> FALSE,
     lastPriceIsNumber |-> FALSE, pChange |-> 0, lastPrice |-> 0, companyName |-> ""]

NoPriceInfoPayload ==
    [isNull |-> FALSE, hasPriceInfo |-> FALSE, pChangeIsNumber |-> FALSE,
     lastPriceIsNumber |-> FALSE, pChange |-> 0, lastPrice |-> 0, companyName |-> "Co"]

NonNumericPayload ==
    [isNull |-> FALSE, hasPriceInfo |-> TRUE, pChangeIsNumber |-> TRUE,
     lastPriceIsNumber |-> FALSE, pChange |-> 2, lastPrice |-> 0, companyName |-> "Co"]

Payloads ==
    {GoodPayload(-1, "Co"), GoodPayload(2, ""), NullPayload, NoPriceInfoPayload, NonNumericPayload}

Outcomes ==
    {[rejected |-> TRUE, value |-> NullPayload]} \cup {[rejected |-> FALSE, value |-> p] : p \in Payloads}

\* symbolsList as loadSymbols sets it, cut to the first MaxJobSymbols entries
symbolsList == SubSeq(<<"RELIANCE", "TCS", "INFY", "HDFC">>, 1, MaxJobSymbols)

\* moment().format('YYYY-MM-DD')
MsPerDay == 86400000

Today(t) == IF t < MsPerDay THEN "d1" ELSE "d2"

\* what the price job may get from nseIndia.getEquityDetails(symbol)
JobOutcomes ==
    {[rejected |-> TRUE, value |-> NullPayload], [rejected |-> FALSE, value |-> NoPriceInfoPayload],
     [rejected |-> FALSE, value |-> GoodPayload(2, "Co")]}

NoData == [hasDP |-> FALSE, pct |-> 0, pctIsNumber |-> TRUE]

\* what the delivery job may get from nseIndia.getEquityTradeInfo(symbol)
TradeOutcomes ==
    {[rejected |-> TRUE, value |-> NoData], [rejected |-> FALSE, value |-> NoData],
     [rejected |-> FALSE, value |-> [hasDP |-> TRUE, pct |-> 45, pctIsNumber |-> TRUE]],
     [rejected |-> FALSE, value |-> [hasDP |-> TRUE, pct |-> 45, pctIsNumber |-> FALSE]]}

\* whoever calls dbOps directly, outside a job run
Client(n) == [run |-> 0, pos |-> n]

\* calls of dbOps a caller may make
DbRequests ==
    {[op |-> "insertPriceData", args |-> [symbol |-> sym, date |-> "d1", close |-> c]] :
        sym \in {"RELIANCE", "TCS"}, c \in {1, 2}}
    \cup {[op |-> "insertDeliveryData", args |-> [symbol |-> "RELIANCE", date |-> "d1", pct |-> c]] : c \in {45, 60}}
    \cup {[op |-> "logJob", args |-> [job_name |-> n, status |-> "SUCCESS", records_processed |-> 0, started_at |-> 0]] :
        n \in {"PRICE_INGESTION", "DATA_CLEANUP"}}
    \cup {[op |-> "getJobLogs", args |-> [limit |-> l]] : l \in {1, STATUS_LIMIT}}

JobTypes == {"prices", "delivery", "cleanup", "reports"}

JobNames == {"PRICE_INGESTION", "DELIVERY_INGESTION", "DATA_CLEANUP"}

\* ------------------------------------------------------------------ state
VARIABLES
    now,           \* Date.now()
    started,       \* number of calls made so far
    bypass,        \* FORCE_CACHE_BYPASS
    nifty500Data,  \* rows of the spreadsheet
    industryData,  \* industry -> symbols, in insertion order
    allSymbolsSet, \* flat membership set
    phase,         \* "boot" until preloadExcelData has finished, then "serving"
    cache,         \* the NodeCache store, key -> entry
    call,          \* locals of each running fetchEquityDetailsInBatches
    hist,          \* per call: what has happened so far (history only)
    resp,          \* per call: the value returned / the HTTP response
    web,           \* the latest request answered by one of the synchronous handlers
    tfLog,         \* the historical-timeframe requests answered so far (history only)
    db,            \* the SQLite tables
    stmts,         \* statements handed to the database and not yet executed
    jobs,          \* locals of each run of a nightly job
    reads,         \* what the latest getJobLogs resolved with
    setup          \* initializeDatabase: its CREATE statements and its promise

vars ==
    <<now, started, bypass, nifty500Data, industryData, allSymbolsSet, phase, cache, call, hist, resp,
      web, tfLog, db, stmts, jobs, reads, setup>>

persistence == <<db, stmts, jobs, reads, setup>>

registry == <<bypass, nifty500Data, industryData, allSymbolsSet, phase>>

\* ------------------------------------------------------------ small helpers
Min(a, b) == IF a < b THEN a ELSE b

SeqsUpTo(S, n) == UNION {[1..k -> S] : k \in 0..n}

RECURSIVE SeqToSet(_)
SeqToSet(s) == IF s = <<>> THEN {} ELSE {Head(s)} \cup SeqToSet(Tail(s))

Contains(s, x) == \E i \in 1..Len(s) : s[i] = x

RECURSIVE Flatten(_)
Flatten(ss) == IF ss = <<>> THEN <<>> ELSE Head(ss) \o Flatten(Tail(ss))


Slice(s, n) == SubSeq(s, 1, Min(n, Len(s)))

\* --------------------------------------------------------- symbol registry
DEFAULT_INDUSTRY_DATA ==
    << [industry |-> "Industrial", symbols |-> <<"TIMKEN">>],
       [industry |-> "Financial Services", symbols |-> <<"PAYTM", "POLICYBZR", "PNBHOUSING", "POONAWALLA">>],
       [industry |-> "Energy", symbols |-> <<"RELIANCE">>],
       [industry |-> "Technology", symbols |-> <<"TCS">>],
       [industry |-> "Infrastructure", symbols |-> <<"PFC">>],
       [industry |-> "Consumer Services", symbols |-> <<"PEL">>] >>

DefaultSymbols == SeqToSet(Flatten([i \in DOMAIN DEFAULT_INDUSTRY_DATA |-> DEFAULT_INDUSTRY_DATA[i].symbols]))

\* row['Industry']?.toString().trim() || 'Other'
NormalizeIndustry(raw) ==
    CASE raw = "" -> "Other"
      [] raw = " Tech " -> "Tech"
      [] OTHER -> raw

AddToIndustry(idata, industry, symbol) ==
    IF \E i \in DOMAIN idata : idata[i].industry = industry
    THEN [i \in DOMAIN idata |->
            IF idata[i].industry = industry /\ ~Contains(idata[i].symbols, symbol)
            THEN [idata[i] EXCEPT !.symbols = Append(@, symbol)]
            ELSE idata[i]]
    ELSE Append(idata, [industry |-> industry, symbols |-> <<symbol>>])

\* the forEach over the rows; reg = [industryData, allSymbolsSet]
RECURSIVE LoadRows(_, _)
LoadRows(rows, reg) ==
    IF rows = <<>> THEN reg
    ELSE LET symbol == NormalizeSymbol(Head(rows).Symbol)
             industry == NormalizeIndustry(Head(rows).Industry)
         IN  LoadRows(Tail(rows),
                 IF symbol # ""
                 THEN [industryData |-> AddToIndustry(reg.industryData, industry, symbol),
                       allSymbolsSet |-> reg.allSymbolsSet \cup {symbol}]
                 ELSE reg)

preloadExcelData_noFallback(readResult) ==
    IF readResult.threw
    THEN [nifty500Data |-> <<>>, industryData |-> DEFAULT_INDUSTRY_DATA, allSymbolsSet |-> DefaultSymbols]
    ELSE LET reg == LoadRows(readResult.rows, [industryData |-> <<>>, allSymbolsSet |-> {}])
         IN  [nifty500Data |-> readResult.rows, industryData |-> reg.industryData,
              allSymbolsSet |-> reg.allSymbolsSet]

\* readResult = [threw, rows] is what readExcelFile did
preloadExcelData(readResult) ==
    IF readResult.threw
    THEN [nifty500Data |-> <<>>, industryData |-> DEFAULT_INDUSTRY_DATA, allSymbolsSet |-> DefaultSymbols]
    ELSE LET reg == LoadRows(readResult.rows, [industryData |-> <<>>, allSymbolsSet |-> {}])
         IN  IF reg.industryData = <<>>
             THEN [nifty500Data |-> readResult.rows, industryData |-> DEFAULT_INDUSTRY_DATA,
                   allSymbolsSet |-> reg.allSymbolsSet \cup DefaultSymbols]
             ELSE [nifty500Data |-> readResult.rows, industryData |-> reg.industryData,
                   allSymbolsSet |-> reg.allSymbolsSet]

\* ------------------------------------------------------------ result cache
\* cache.get(key): node-cache drops an entry whose ttl has run out
CacheGet(cch, key, t) ==
    IF key \in DOMAIN cch /\ cch[key].present /\ ~(cch[key].expires < t) THEN cch[key] ELSE NoEntry

\* cache.set(key, value, ttl) of a whole response body
CacheSetTTL(cch, key, value, ttl, t) ==
    [k \in DOMAIN cch \cup {key} |->
        IF k = key THEN [present |-> TRUE, value |-> value, expires |-> t + ttl * 1000] ELSE cch[k]]

CacheSet_mergesEntry(cch, key, value, t) ==
    [cch EXCEPT ![key] =
        [present |-> TRUE, pChange |-> value.pChange, lastPrice |-> value.lastPrice,
         companyName |-> IF cch[key].present THEN cch[key].companyName ELSE value.companyName,
         timestamp |-> value.timestamp, expires |-> t + STD_TTL * 1000]]

\* cache.set(key, value) with the standard ttl: the entry is replaced as a whole
CacheSet(cch, key, value, t) ==
    [cch EXCEPT ![key] =
        [present |-> TRUE, pChange |-> value.pChange, lastPrice |-> value.lastPrice,
         companyName |-> value.companyName, timestamp |-> value.timestamp,
         expires |-> t + STD_TTL * 1000]]

\* cached && cached.timestamp > Date.now() - 300 * 1000
IsFresh_noTimestamp(cached, t) == cached.present

IsFresh(cached, t) == cached.present /\ cached.timestamp > t - FRESH_WINDOW_MS

QuoteFromCache(symbol, cached, tag) ==
    [symbol |-> symbol, pChange |-> cached.pChange, lastPrice |-> cached.lastPrice,
     companyName |-> cached.companyName, src |-> tag]

\* --------------------------------------------- fetchEquityDetailsInBatches
BlankStrings == {"", " "}

ValidSymbols_noRegistry(symbols) ==
    SelectSeq(symbols, LAMBDA sym : sym \notin BlankStrings)

ValidSymbols(symbols) ==
    SelectSeq(symbols, LAMBDA sym : sym \in allSymbolsSet /\ sym \notin BlankStrings)

UseCache_ignoreBypass(forceRefresh) == ~forceRefresh

UseCache(forceRefresh) == ~forceRefresh /\ ~bypass

\* the partition loop: the quotes pushed to results (src = 0 marks a cache hit)
RECURSIVE CachedQuotes(_, _, _)
CachedQuotes(valid, cch, t) ==
    IF valid = <<>> THEN <<>>
    ELSE LET cached == CacheGet(cch, Head(valid), t)
         IN  (IF IsFresh(cached, t) THEN <<QuoteFromCache(Head(valid), cached, 0)>> ELSE <<>>)
             \o CachedQuotes(Tail(valid), cch, t)

UncachedSymbols(valid, forceRefresh, cch, t) ==
    IF UseCache(forceRefresh)
    THEN SelectSeq(valid, LAMBDA symbol : ~IsFresh(CacheGet(cch, symbol, t), t))
    ELSE valid

MakeBatches_oversize(uncached, batchSize) ==
    [j \in 1..((Len(uncached) + batchSize) \div (batchSize + 1)) |->
        SubSeq(uncached, (j - 1) * (batchSize + 1) + 1, Min(j * (batchSize + 1), Len(uncached)))]

MakeBatches(uncached, batchSize) ==
    [j \in 1..((Len(uncached) + batchSize - 1) \div batchSize) |->
        SubSeq(uncached, (j - 1) * batchSize + 1, Min(j * batchSize, Len(uncached)))]

\* getEquityDetails(symbol).then(result => ({symbol, result})).catch(e => ({symbol, result: null}))
PerSymbolChain_noCatch(symbol, outcome) ==
    [rejected |-> outcome.rejected, symbol |-> symbol, result |-> outcome.value]

PerSymbolChain(symbol, outcome) ==
    IF outcome.rejected
    THEN [rejected |-> FALSE, symbol |-> symbol, result |-> NullPayload]
    ELSE [rejected |-> FALSE, symbol |-> symbol, result |-> outcome.value]

WellFormed_noTypeCheck(result) == ~result.isNull /\ result.hasPriceInfo

\* result && result.priceInfo && typeof pChange === 'number' && typeof lastPrice === 'number'
WellFormed(result) ==
    ~result.isNull /\ result.hasPriceInfo /\ result.pChangeIsNumber /\ result.lastPriceIsNumber

ToQuote(br, tag) ==
    [symbol |-> br.symbol, pChange |-> br.result.pChange, lastPrice |-> br.result.lastPrice,
     companyName |-> IF br.result.companyName = "" THEN "Unknown" ELSE br.result.companyName,
     src |-> tag]

RECURSIVE ValidResults(_, _)
ValidResults(batchResults, tag) ==
    IF batchResults = <<>> THEN <<>>
    ELSE (IF WellFormed(Head(batchResults).result) THEN <<ToQuote(Head(batchResults), tag)>> ELSE <<>>)
         \o ValidResults(Tail(batchResults), tag)

RECURSIVE CacheSetAll(_, _, _)
CacheSetAll(cch, validResults, t) ==
    IF validResults = <<>> THEN cch
    ELSE LET q == Head(validResults)
         IN  CacheSetAll(
                 CacheSet(cch, q.symbol,
                          [pChange |-> q.pChange, lastPrice |-> q.lastPrice,
                           companyName |-> q.companyName, timestamp |-> t], t),
                 Tail(validResults), t)


NeedsDelay_afterLast(index, nBatches) == index <= nBatches

\* index < batches.length - 1, with index counted from 1 here
NeedsDelay(index, nBatches) == index < nBatches

AttemptsAfterError_noDecrement(attempts) == attempts

\* attempts-- in the catch block
AttemptsAfterError(attempts) == attempts - 1

FetchReturn_neverCached(c) == [results |-> c.results, cached |-> FALSE]

\* { results, cached: cacheHits > 0 && !forceRefresh && !FORCE_CACHE_BYPASS }
FetchReturn(c) ==
    [results |-> c.results, cached |-> c.cacheHits > 0 /\ ~c.forceRefresh /\ ~bypass]

\* ---------------------------------------------------------- the endpoints
\* nifty500Data.map(row => normalised Symbol).filter(Boolean)
MarketSymbols ==
    SelectSeq([i \in DOMAIN nifty500Data |-> NormalizeSymbol(nifty500Data[i].Symbol)],
              LAMBDA sym : sym # "")

\* allSymbols of the industry endpoint: every industry's symbols, first occurrence kept
RECURSIVE Dedupe(_, _)
Dedupe(s, acc) ==
    IF s = <<>> THEN acc
    ELSE Dedupe(Tail(s), IF Contains(acc, Head(s)) THEN acc ELSE Append(acc, Head(s)))

IndustrySymbols ==
    Dedupe(Flatten([i \in DOMAIN industryData |-> industryData[i].symbols]), <<>>)

\* symbolToIndustries[symbol]
SymbolToIndustries(symbol) ==
    LET hits == SelectSeq(industryData, LAMBDA e : Contains(e.symbols, symbol))
    IN  [i \in DOMAIN hits |-> hits[i].industry]

DescPChange(a, b) == b.pChange - a.pChange

AscPChange(a, b) == a.pChange - b.pChange

\* Number.prototype.toFixed(2) of total / count, for whole-number totals: the
\* string is kept as its sign and its digits, cents = the digits without the point
ToFixed2(total, count) ==
    LET mag == IF total < 0 THEN -total ELSE total
    IN  [isString |-> TRUE, negative |-> total < 0, cents |-> (200 * mag + count) \div (2 * count)]

\* the number 0 that avgPChange is when count is 0
ZeroNumber == [isString |-> FALSE, negative |-> FALSE, cents |-> 0]

\* parseFloat of an avgPChange, in hundredths ("-0.00" parses to 0)
ParseFloat(avg) == IF avg.negative THEN -avg.cents ELSE avg.cents

AvgDesc(a, b) == ParseFloat(b.avgPChange) - ParseFloat(a.avgPChange)

\* the comparator a sort call is given
Compare(order, a, b) ==
    CASE order = "desc" -> DescPChange(a, b)
      [] order = "asc" -> AscPChange(a, b)
      [] order = "avgDesc" -> AvgDesc(a, b)

\* stable sort by a comparator (Array.prototype.sort)
RECURSIVE InsertBy(_, _, _)
InsertBy(order, x, s) ==
    IF s = <<>> THEN <<x>>
    ELSE IF Compare(order, Head(s), x) <= 0 THEN <<Head(s)>> \o InsertBy(order, x, Tail(s))
    ELSE <<x>> \o s

RECURSIVE SortBy(_, _)
SortBy(order, s) ==
    IF s = <<>> THEN <<>>
    ELSE InsertBy(order, s[Len(s)], SortBy(order, SubSeq(s, 1, Len(s) - 1)))

Gainers_unsorted(validResults) == Slice(validResults, TOP_N)

\* validResults.sort(...).slice(0, 10); the sort is in place
Gainers(validResults) == Slice(SortBy("desc", validResults), TOP_N)

Losers_unfiltered(validResults) == Slice(SortBy("asc", SortBy("desc", validResults)), TOP_N)

\* the filter runs over the array the gainers' sort has reordered
Losers(validResults) ==
    Slice(SortBy("asc",
                 SelectSeq(SortBy("desc", validResults), LAMBDA stock : stock.pChange < 0)),
          TOP_N)

\* GET /api/market-data once the fetch has returned
MarketResponse(ret, t) ==
    IF ret.results = <<>>
    THEN [status |-> 500, error |-> "No valid market data retrieved"]
    ELSE [status |-> 200, gainers |-> Gainers(ret.results), losers |-> Losers(ret.results),
          cached |-> ret.cached, timestamp |-> t]

\* the fallback loop of GET /api/industry-data (src = -1 marks a quote it read)
RECURSIVE FallbackQuotes(_, _, _)
FallbackQuotes(allSymbols, cch, t) ==
    IF allSymbols = <<>> THEN <<>>
    ELSE LET cached == CacheGet(cch, Head(allSymbols), t)
         IN  (IF IsFresh(cached, t) THEN <<QuoteFromCache(Head(allSymbols), cached, -1)>> ELSE <<>>)
             \o FallbackQuotes(Tail(allSymbols), cch, t)

\* industryMetrics[industry] gets one more stock; metrics is kept in key order
AddStock(metrics, industry, stock) ==
    IF \E i \in DOMAIN metrics : metrics[i].industry = industry
    THEN [i \in DOMAIN metrics |->
            IF metrics[i].industry = industry
            THEN [metrics[i] EXCEPT !.totalPChange = @ + stock.pChange, !.count = @ + 1,
                                    !.stocks = Append(@, stock)]
            ELSE metrics[i]]
    ELSE Append(metrics, [industry |-> industry, totalPChange |-> stock.pChange, count |-> 1,
                          stocks |-> <<stock>>])

IndustriesOf_firstOnly(symbol) ==
    IF SymbolToIndustries(symbol) = <<>> THEN <<"N/A">> ELSE <<SymbolToIndustries(symbol)[1]>>

\* symbolToIndustries[stock.symbol] || ['N/A']
IndustriesOf(symbol) ==
    IF SymbolToIndustries(symbol) = <<>> THEN <<"N/A">> ELSE SymbolToIndustries(symbol)

\* industries.forEach(...) for one stock
RECURSIVE AddToIndustries(_, _, _)
AddToIndustries(metrics, industries, stock) ==
    IF industries = <<>> THEN metrics
    ELSE AddToIndustries(AddStock(metrics, Head(industries), stock), Tail(industries), stock)

\* validResults.forEach(...): the industryMetrics object
RECURSIVE Aggregate(_, _)
Aggregate(validResults, metrics) ==
    IF validResults = <<>> THEN metrics
    ELSE Aggregate(Tail(validResults),
                   AddToIndustries(metrics, IndustriesOf(Head(validResults).symbol), Head(validResults)))

NoStock == [symbol |-> "", pChange |-> 0, lastPrice |-> 0, companyName |-> "", src |-> -2]

AvgPChange_truncated(metric) ==
    IF metric.count > 0
    THEN [isString |-> TRUE, negative |-> metric.totalPChange < 0,
          cents |-> (100 * (IF metric.totalPChange < 0 THEN -metric.totalPChange ELSE metric.totalPChange))
                    \div metric.count]
    ELSE ZeroNumber

AvgPChange(metric) ==
    IF metric.count > 0 THEN ToFixed2(metric.totalPChange, metric.count) ELSE ZeroNumber

SortedStocks_unsorted(stocks) == stocks

\* [...stocks].sort((a, b) => b.priceInfo.pChange - a.priceInfo.pChange)
SortedStocks(stocks) == SortBy("desc", stocks)

\* one element of the industries list
IndustryEntry(metric) ==
    [industry |-> metric.industry, avgPChange |-> AvgPChange(metric), stockCount |-> metric.count,
     stocks |-> SortedStocks(metric.stocks),
     topStock |-> IF SortedStocks(metric.stocks) # <<>> THEN SortedStocks(metric.stocks)[1] ELSE NoStock]

\* Object.keys(industryMetrics).map(...).filter(ind => ind.stockCount > 0)
IndustryList(validResults) ==
    LET metrics == Aggregate(validResults, <<>>)
    IN  SelectSeq([i \in DOMAIN metrics |-> IndustryEntry(metrics[i])], LAMBDA ind : ind.stockCount > 0)

RankIndustries_reversed(industries) ==
    LET sorted == SortBy("avgDesc", [i \in DOMAIN industries |-> industries[Len(industries) + 1 - i]])
    IN  sorted

\* industries.sort((a, b) => parseFloat(b.avgPChange) - parseFloat(a.avgPChange))
RankIndustries(industries) == SortBy("avgDesc", industries)

EmptyIndustryResponse_hardFailure(cached, t) ==
    [status |-> 500, error |-> "No valid industry data retrieved"]

\* the answer when there is nothing to aggregate
EmptyIndustryResponse(cached, t) ==
    [status |-> 200, industries |-> <<>>, stocks |-> <<>>, cached |-> cached, timestamp |-> t,
     warning |-> "No valid industry data retrieved"]

\* GET /api/industry-data once calculateTimeframeReturns has returned; stocks is
\* validResults, kept beside the JSON body (industries, cached, timestamp)
IndustryResponse(ret, allSymbols, cch, t) ==
    LET useFallback == ret.results = <<>>
        validResults == IF useFallback THEN FallbackQuotes(allSymbols, cch, t) ELSE ret.results
        cached == IF useFallback THEN validResults # <<>> ELSE ret.cached
    IN  IF validResults = <<>>
        THEN EmptyIndustryResponse(cached, t)
        ELSE [status |-> 200, industries |-> RankIndustries(IndustryList(validResults)),
              stocks |-> validResults, cached |-> cached, timestamp |-> t]

\* req.query.timeframe || '1d'
RequestedTimeframe(query) == IF query.timeframe = "" THEN "1d" ELSE query.timeframe

\* the timeframes calculateTimeframeReturns simulates from historical data; any
\* other value takes the path of '1d'
IsHistorical(timeframe) == timeframe \in {"1w", "1m", "3m", "6m", "1y"}

\* symbols.join('_')
RECURSIVE JoinSymbols(_)
JoinSymbols(symbols) ==
    IF symbols = <<>> THEN ""
    ELSE IF Len(symbols) = 1 THEN symbols[1]
    ELSE symbols[1] \o "_" \o JoinSymbols(Tail(symbols))

\* `timeframe_${timeframe}_${symbols.join('_')}`
TimeframeKey(timeframe, symbols) == "timeframe_" \o timeframe \o "_" \o JoinSymbols(symbols)

\* pChange * multiplier * (Math.random() > 0.5 ? 1 : -1), stock by stock; sim[i]
\* is the signed multiplier drawn for the i-th stock
Simulate(results, sim) ==
    [i \in DOMAIN results |-> [results[i] EXCEPT !.pChange = @ * sim[i]]]

\* what calculateTimeframeReturns returns once the fetch has returned
TimeframeReturn(c) ==
    IF IsHistorical(RequestedTimeframe(c.query))
    THEN [results |-> Simulate(c.results, c.sim), cached |-> FALSE]
    ELSE FetchReturn(c)

\* cache.set(cacheKey, results, 1800) on the historical path
TimeframeStore(c, cch, t) ==
    IF c.kind = "industry" /\ IsHistorical(RequestedTimeframe(c.query))
    THEN CacheSetTTL(cch, TimeframeKey(RequestedTimeframe(c.query), c.symbols),
                     Simulate(c.results, c.sim), TIMEFRAME_TTL, t)
    ELSE cch

\* generateMockDeliveryData(symbol, date); draw is what Math.random gave
GenerateMockDeliveryData(symbol, date, draw) ==
    [symbol |-> symbol, date |-> date, deliveryPercentage |-> draw]

\* generateAIAnalysisData(leader, follower, timeframe)
GenerateAIAnalysisData(leader, follower, timeframe, draw) ==
    [leader |-> leader, follower |-> follower, timeframe |-> timeframe, correlation |-> draw]

DeliveryStatsHandler_lookupFirst(query, cch, t, draw) ==
    LET cacheKey == "delivery_" \o query.symbol \o "_" \o query.date
        cached == CacheGet(cch, cacheKey, t)
    IN  IF cached.present /\ ~bypass
        THEN [resp |-> [status |-> 200, body |-> cached.value], cache |-> cch, ops |-> <<"cache.get">>]
        ELSE IF query.symbol = "" \/ query.date = ""
        THEN [resp |-> [status |-> 400, error |-> "Symbol and date parameters are required"],
              cache |-> cch, ops |-> <<"cache.get">>]
        ELSE LET deliveryData == GenerateMockDeliveryData(query.symbol, query.date, draw)
             IN  [resp |-> [status |-> 200, body |-> deliveryData],
                  cache |-> CacheSetTTL(cch, cacheKey, deliveryData, DELIVERY_TTL, t),
                  ops |-> <<"cache.get", "generate", "cache.set">>]

\* GET /api/delivery-stats?symbol=...&date=...; a parameter the request does not
\* give is "" (undefined and '' are both falsy); ops lists what the handler did
DeliveryStatsHandler(query, cch, t, draw) ==
    LET cacheKey == "delivery_" \o query.symbol \o "_" \o query.date
        cached == CacheGet(cch, cacheKey, t)
    IN  IF query.symbol = "" \/ query.date = ""
        THEN [resp |-> [status |-> 400, error |-> "Symbol and date parameters are required"],
              cache |-> cch, ops |-> <<>>]
        ELSE IF cached.present /\ ~bypass
        THEN [resp |-> [status |-> 200, body |-> cached.value], cache |-> cch, ops |-> <<"cache.get">>]
        ELSE LET deliveryData == GenerateMockDeliveryData(query.symbol, query.date, draw)
             IN  [resp |-> [status |-> 200, body |-> deliveryData],
                  cache |-> CacheSetTTL(cch, cacheKey, deliveryData, DELIVERY_TTL, t),
                  ops |-> <<"cache.get", "generate", "cache.set">>]

\* GET /api/ai-analysis?leader=...&follower=...&timeframe=...; timeframe = '3m'
\* when the request gives none
AiAnalysisHandler(query, cch, t, draw) ==
    LET timeframe == IF query.timeframe = "" THEN "3m" ELSE query.timeframe
        cacheKey == "ai_analysis_" \o query.leader \o "_" \o query.follower \o "_" \o timeframe
        cached == CacheGet(cch, cacheKey, t)
    IN  IF query.leader = "" \/ query.follower = ""
        THEN [resp |-> [status |-> 400, error |-> "Leader and follower symbols are required"],
              cache |-> cch, ops |-> <<>>]
        ELSE IF query.leader = query.follower
        THEN [resp |-> [status |-> 400, error |-> "Leader and follower symbols must be different"],
              cache |-> cch, ops |-> <<>>]
        ELSE IF cached.present /\ ~bypass
        THEN [resp |-> [status |-> 200, body |-> cached.value], cache |-> cch, ops |-> <<"cache.get">>]
        ELSE LET analysisData == GenerateAIAnalysisData(query.leader, query.follower, timeframe, draw)
             IN  [resp |-> [status |-> 200, body |-> analysisData],
                  cache |-> CacheSetTTL(cch, cacheKey, analysisData, AI_TTL, t),
                  ops |-> <<"cache.get", "generate", "cache.set">>]

\* what the caller sees if the fetch throws: the endpoints' catch blocks answer 500
HandlerCatch(c) ==
    CASE c.kind = "market" -> [status |-> 500, error |-> "Failed to fetch market data"]
      [] c.kind = "industry" -> [status |-> 500, error |-> "Failed to fetch industry data"]
      [] OTHER -> [status |-> -2, error |-> "thrown"]

\* the continuation of whoever awaited the fetch
Respond(c, cch) ==
    CASE c.kind = "market" -> MarketResponse(FetchReturn(c), now)
      [] c.kind = "industry" -> IndustryResponse(TimeframeReturn(c), c.symbols, cch, now)
      [] OTHER -> [status |-> 0] @@ FetchReturn(c)

\* ---------------------------------------------- control flow of one call
\* m = [c, h, cache, resp]: the call's locals, its history, the store, its answer
Return(m) ==
    LET cch == TimeframeStore(m.c, m.cache, now)
    IN  [m EXCEPT !.c.pc = "done", !.cache = cch, !.resp = Respond(m.c, cch), !.h.returnedAt = now]

\* the end of the for-loop body: the inter-batch delay, or the loop ends
AfterBatch(m) ==
    IF NeedsDelay(m.c.index, Len(m.c.batches))
    THEN [m EXCEPT !.c.pc = "delay", !.c.wakeAt = now + BATCH_DELAY_MS]
    ELSE Return(m)

Exhausted_rethrow(m) ==
    [m EXCEPT !.c.pc = "done", !.resp = HandlerCatch(m.c), !.h.returnedAt = now,
              !.h.outcome[m.c.index] = "abandoned", !.h.endAt[m.c.index] = now]

\* the batch is given up: `continue` leaves the while loop because attempts = 0
Exhausted(m) ==
    AfterBatch([m EXCEPT !.h.outcome[m.c.index] = "abandoned", !.h.endAt[m.c.index] = now])

\* the catch block; dangling = provider calls of this attempt nobody awaits any more
OnBatchError(m, dangling) ==
    LET m1 == [m EXCEPT !.c.attempts = AttemptsAfterError(@), !.c.settled = <<>>,
                        !.h.thrownAt = now, !.h.orphans = @ + dangling]
    IN  IF m1.c.attempts = 0
        THEN Exhausted(m1)
        ELSE [m1 EXCEPT !.c.pc = "backoff", !.c.wakeAt = now + RETRY_BACKOFF_MS]

\* how often symbol occurs among the first k entries of batch
RECURSIVE CountIn(_, _, _)
CountIn(batch, k, symbol) ==
    IF k = 0 THEN 0
    ELSE CountIn(batch, k - 1, symbol) + (IF batch[k] = symbol THEN 1 ELSE 0)

\* batch.map(symbol => getEquityDetails(symbol)...): throwAt = 0, every call is
\* issued and Promise.all is awaited; throwAt = k, the k-th call throws synchronously
StartAttempt(m, throwAt) ==
    LET idx == m.c.index
        batch == m.c.batches[idx]
        invoked == IF throwAt = 0 THEN Len(batch) ELSE throwAt
        m1 == [m EXCEPT !.h.tried[idx] = @ + 1,
                        !.h.startAt[idx] = IF @ = -1 THEN now ELSE @,
                        !.h.raw = [i \in 1..Len(batch) |-> Pending],
                        !.h.issued = [k \in KeyUniverse |-> @[k] + CountIn(batch, invoked, k)]]
    IN  IF throwAt = 0
        THEN [m1 EXCEPT !.c.pc = "await", !.c.settled = [i \in 1..Len(batch) |-> Pending]]
        ELSE OnBatchError(m1, throwAt - 1)

\* after await Promise.all: filter, map, cache.set, results.push, break;
\* validResults is computed once and used twice, as in the code
CompleteBatch(m) ==
    LET idx == m.c.index
    IN  CHOOSE after \in
            {AfterBatch([mm EXCEPT !.cache = CacheSetAll(@, validResults, now),
                                   !.c.results = @ \o validResults,
                                   !.c.settled = <<>>,
                                   !.h.outcome[idx] = "ok",
                                   !.h.endAt[idx] = now]) :
                mm \in {m}, validResults \in {ValidResults(m.c.settled, idx)}} : TRUE

PendingCount(settled) == Cardinality({i \in DOMAIN settled : settled[i] = Pending})

\* one provider call settles; Promise.all resumes the call when it was the last
\* one, and rejects at once if the per-symbol promise rejects
SettleOne(m, pos, outcome) ==
    LET chain == PerSymbolChain(m.c.batches[m.c.index][pos], outcome)
        m1 == [m EXCEPT !.c.settled[pos] = chain, !.h.raw[pos] = outcome]
    IN  IF chain.rejected THEN OnBatchError(m1, PendingCount(m1.c.settled))
        ELSE IF PendingCount(m1.c.settled) = 0 THEN CompleteBatch(m1)
        ELSE m1

\* the function body up to the batch loop
EnterFetch(m, kind, symbols, batchSize, forceRefresh) ==
    LET validSymbols == ValidSymbols(symbols)
        hits == IF UseCache(forceRefresh) THEN CachedQuotes(validSymbols, m.cache, now) ELSE <<>>
        uncached == UncachedSymbols(validSymbols, forceRefresh, m.cache, now)
        batches == MakeBatches(uncached, batchSize)
    IN  [m EXCEPT !.c = [kind |-> kind, query |-> m.c.query, sim |-> m.c.sim, symbols |-> symbols, batchSize |-> batchSize,
                         forceRefresh |-> forceRefresh, pc |-> "enter", results |-> hits,
                         cacheHits |-> Len(hits), batches |-> batches, index |-> 1,
                         attempts |-> MAX_RETRIES, settled |-> <<>>, wakeAt |-> 0],
                  !.h = [tried |-> [i \in DOMAIN batches |-> 0],
                         outcome |-> [i \in DOMAIN batches |-> "todo"],
                         startAt |-> [i \in DOMAIN batches |-> -1],
                         endAt |-> [i \in DOMAIN batches |-> -1],
                         thrownAt |-> -1, calledAt |-> now, returnedAt |-> -1,
                         issued |-> [k \in KeyUniverse |-> 0], orphans |-> 0, raw |-> <<>>,
                         fresh |-> {k \in SeqToSet(validSymbols) : IsFresh(CacheGet(m.cache, k, now), now)}]]

\* a whole call up to its first await (or its return when nothing is to fetch)
BeginFetch(m, kind, symbols, batchSize, forceRefresh, throwAt) ==
    LET m1 == EnterFetch(m, kind, symbols, batchSize, forceRefresh)
    IN  IF m1.c.batches = <<>> THEN Return(m1) ELSE StartAttempt(m1, throwAt)


\* ------------------------------------------------------- persistence layer
\* the tables as initializeDatabase creates them; journal lists the write
\* statements in the order they were executed, with their outcome (history only)
EmptyDb == [prices |-> <<>>, delivery_stats |-> <<>>, job_logs |-> <<>>, journal |-> <<>>]

\* the tables initializeDatabase creates, one CREATE TABLE IF NOT EXISTS each
SchemaTables == {"prices", "delivery_stats", "job_logs"}

\* initializeDatabase has not been called
NotInitialized == [pending |-> {}, created |-> {}, failed |-> {}, promise |-> "none"]

\* every table was created and the promise is resolved
DatabaseReady == [pending |-> {}, created |-> SchemaTables, failed |-> {}, promise |-> "resolved"]

\* the executor of new Promise(...): the three db.run calls are made one after
\* the other, none waits for another
InitializeDatabaseCall(s) == [s EXCEPT !.pending = SchemaTables, !.promise = "pending"]

\* resolve() and reject(err) act on a pending promise only
SettlePromise(promise, to) == IF promise = "pending" THEN to ELSE promise

\* the callback of the CREATE statement of table: reject(err) on an error; only
\* the callback of job_logs calls resolve()
CreateCallback(s, table, ok) ==
    LET s1 == [s EXCEPT !.pending = @ \ {table},
                        !.created = IF ok THEN @ \cup {table} ELSE @,
                        !.failed = IF ok THEN @ ELSE @ \cup {table}]
    IN  IF ~ok THEN [s1 EXCEPT !.promise = SettlePromise(@, "rejected")]
        ELSE IF table = "job_logs" THEN [s1 EXCEPT !.promise = SettlePromise(@, "resolved")]
        ELSE s1

RunSlots == 1..MaxRuns

\* a job run that has not been started; called, calledAt and ops are history only
IdleRun ==
    [name |-> "none", via |-> "none", pc |-> "idle", recordsProcessed |-> 0, startTime |-> 0,
     today |-> "", symbols |-> <<>>, batches |-> <<>>, index |-> 1, tasks |-> <<>>,
     data |-> NoData, wakeAt |-> 0, called |-> <<>>, calledAt |-> <<>>, ops |-> {}]

NoRead == [limit |-> 0, rows |-> <<>>]

InsertOrReplace_noReplace(rows, row) == Append(rows, row)

\* INSERT OR REPLACE into a table with UNIQUE(symbol, date)
InsertOrReplace(rows, row) ==
    Append(SelectSeq(rows, LAMBDA old : ~(old.symbol = row.symbol /\ old.date = row.date)), row)

\* INSERT INTO job_logs: AUTOINCREMENT id, completed_at = CURRENT_TIMESTAMP
\* (whole seconds)
InsertLog(logs, args, t) ==
    Append(logs, [id |-> Len(logs) + 1, job_name |-> args.job_name, status |-> args.status,
                  records_processed |-> args.records_processed, started_at |-> args.started_at,
                  completed_at |-> t \div 1000])

\* the orders ORDER BY completed_at DESC may return the rows in: rows with equal
\* completed_at come in any order
NewestFirstOrders(logs) ==
    {p \in [1..Len(logs) -> 1..Len(logs)] :
        /\ \A i, j \in 1..Len(logs) : i # j => p[i] # p[j]
        /\ \A i, j \in 1..Len(logs) : i < j => logs[p[i]].completed_at >= logs[p[j]].completed_at}

\* SELECT * FROM job_logs ORDER BY completed_at DESC LIMIT ?
GetJobLogs(logs, limit, p) == Slice([i \in 1..Len(logs) |-> logs[p[i]]], limit)

\* the effect of one statement on the tables; ok = FALSE, the statement failed
\* and the callback gets err
Apply(d, st, ok, t) ==
    LET d1 == [d EXCEPT !.journal = Append(@, [op |-> st.op, args |-> st.args, ok |-> ok, run |-> st.owner.run])]
    IN  CASE st.op = "getJobLogs" -> d
          [] ~ok -> d1
          [] st.op = "insertPriceData" ->
                [d1 EXCEPT !.prices = InsertOrReplace(@, [symbol |-> st.args.symbol, date |-> st.args.date,
                                                          close_price |-> st.args.close])]
          [] st.op = "insertDeliveryData" ->
                [d1 EXCEPT !.delivery_stats =
                    InsertOrReplace(@, [symbol |-> st.args.symbol, date |-> st.args.date,
                                        delivery_percentage |-> st.args.pct])]
          [] OTHER -> [d1 EXCEPT !.job_logs = InsertLog(@, st.args, t)]

\* ------------------------------------------------------------ nightly jobs
\* w = [jobs, stmts, db, cache, reads, web]: everything a job step or a
\* database callback can reach
Issue(w, owner, op, args) ==
    [w EXCEPT !.stmts = @ \cup {[owner |-> owner, op |-> op, args |-> args]}]

\* await dbOps.logJob(jobName, status, message, recordsProcessed, startTime)
LogJob(w, j, status) ==
    Issue([w EXCEPT !.jobs[j].pc = IF status = "SUCCESS" THEN "log" ELSE "logError",
                    !.jobs[j].ops = @ \cup {"db"}],
          [run |-> j, pos |-> 0], "logJob",
          [job_name |-> w.jobs[j].name, status |-> status,
           records_processed |-> w.jobs[j].recordsProcessed, started_at |-> w.jobs[j].startTime])

\* batch.map(async symbol => ...): every symbol's getEquityDetails is called
StartPriceBatch(w, j) ==
    LET batch == w.jobs[j].batches[w.jobs[j].index]
    IN  [w EXCEPT !.jobs[j].pc = "batch",
                  !.jobs[j].tasks = [i \in DOMAIN batch |-> "provider"],
                  !.jobs[j].called = @ \o batch,
                  !.jobs[j].calledAt = @ \o [i \in DOMAIN batch |-> now],
                  !.jobs[j].ops = @ \cup {"provider"}]

\* after await Promise.all(batchPromises): the delay, or the loop ends and the
\* run is logged
AfterPriceTask(w, j) ==
    IF \E i \in DOMAIN w.jobs[j].tasks : w.jobs[j].tasks[i] # "done" THEN w
    ELSE IF w.jobs[j].index < Len(w.jobs[j].batches)
    THEN [w EXCEPT !.jobs[j].pc = "delay", !.jobs[j].wakeAt = now + JOB_BATCH_DELAY_MS]
    ELSE LogJob(w, j, "SUCCESS")

PriceProviderSettled_cachesQuote(w, j, pos, outcome) ==
    LET symbol == w.jobs[j].batches[w.jobs[j].index][pos]
    IN  IF ~outcome.rejected /\ ~outcome.value.isNull /\ outcome.value.hasPriceInfo
        THEN Issue([w EXCEPT !.jobs[j].tasks[pos] = "insert", !.jobs[j].ops = @ \cup {"db"},
                             !.cache = CacheSetTTL(@, symbol, outcome.value, STD_TTL, now)],
                   [run |-> j, pos |-> pos], "insertPriceData",
                   [symbol |-> symbol, date |-> w.jobs[j].today, close |-> outcome.value.lastPrice])
        ELSE AfterPriceTask([w EXCEPT !.jobs[j].tasks[pos] = "done"], j)

\* the continuation of await nseIndia.getEquityDetails(symbol) in one task
PriceProviderSettled(w, j, pos, outcome) ==
    LET symbol == w.jobs[j].batches[w.jobs[j].index][pos]
    IN  IF ~outcome.rejected /\ ~outcome.value.isNull /\ outcome.value.hasPriceInfo
        THEN Issue([w EXCEPT !.jobs[j].tasks[pos] = "insert", !.jobs[j].ops = @ \cup {"db"}],
                   [run |-> j, pos |-> pos], "insertPriceData",
                   [symbol |-> symbol, date |-> w.jobs[j].today, close |-> outcome.value.lastPrice])
        ELSE AfterPriceTask([w EXCEPT !.jobs[j].tasks[pos] = "done"], j)

PriceInsertDone_countsFailures(w, j, pos, ok) ==
    AfterPriceTask([w EXCEPT !.jobs[j].tasks[pos] = "done", !.jobs[j].recordsProcessed = @ + 1], j)

\* the continuation of await dbOps.insertPriceData(...): recordsProcessed++, or
\* the task's catch block
PriceInsertDone(w, j, pos, ok) ==
    AfterPriceTask([w EXCEPT !.jobs[j].tasks[pos] = "done",
                             !.jobs[j].recordsProcessed = IF ok THEN @ + 1 ELSE @], j)

\* the for loop of ingestDeliveryData reaches its next symbol, or ends
StartDeliverySymbol(w, j) ==
    IF w.jobs[j].index > Len(w.jobs[j].symbols) THEN LogJob(w, j, "SUCCESS")
    ELSE [w EXCEPT !.jobs[j].pc = "provider",
                   !.jobs[j].called = Append(@, w.jobs[j].symbols[w.jobs[j].index]),
                   !.jobs[j].calledAt = Append(@, now),
                   !.jobs[j].ops = @ \cup {"provider"}]

\* the catch block inside the loop: on to the next symbol at once
DeliveryCatch(w, j) == StartDeliverySymbol([w EXCEPT !.jobs[j].index = @ + 1], j)

\* await new Promise(resolve => setTimeout(resolve, 1000))
DeliveryDelay(w, j) == [w EXCEPT !.jobs[j].pc = "delay", !.jobs[j].wakeAt = now + DELIVERY_DELAY_MS]

\* the continuation of await nseIndia.getEquityTradeInfo(symbol)
DeliveryProviderSettled(w, j, outcome) ==
    IF outcome.rejected THEN DeliveryCatch(w, j)
    ELSE IF outcome.value.hasDP
    THEN Issue([w EXCEPT !.jobs[j].pc = "insert", !.jobs[j].data = outcome.value,
                         !.jobs[j].ops = @ \cup {"db"}],
               [run |-> j, pos |-> 1], "insertDeliveryData",
               [symbol |-> w.jobs[j].symbols[w.jobs[j].index], date |-> w.jobs[j].today,
                pct |-> outcome.value.pct])
    ELSE DeliveryDelay(w, j)

\* the continuation of await dbOps.insertDeliveryData(...): recordsProcessed++,
\* then deliveryPercentage.toFixed(2), which throws unless it is a number
DeliveryInsertDone(w, j, ok) ==
    IF ~ok THEN DeliveryCatch(w, j)
    ELSE LET w1 == [w EXCEPT !.jobs[j].recordsProcessed = @ + 1]
         IN  IF w.jobs[j].data.pctIsNumber THEN DeliveryDelay(w1, j) ELSE DeliveryCatch(w1, j)

\* the continuation of await dbOps.logJob(...): the run ends; if the SUCCESS
\* record could not be written the catch block logs ERROR, and if that fails
\* too the run's promise rejects
LogDone(w, j, ok) ==
    IF ok THEN [w EXCEPT !.jobs[j].pc = "done"]
    ELSE IF w.jobs[j].pc = "log" THEN LogJob(w, j, "ERROR")
    ELSE [w EXCEPT !.jobs[j].pc = "rejected"]

\* a timer of run j has fired
JobTimerFired(w, j) ==
    LET w1 == [w EXCEPT !.jobs[j].index = @ + 1]
    IN  IF w.jobs[j].name = "PRICE_INGESTION" THEN StartPriceBatch(w1, j) ELSE StartDeliverySymbol(w1, j)

\* ingestPriceData(), ingestDeliveryData() or cleanupOldData() up to its first await
StartJob(w, j, name, via) ==
    LET run == [IdleRun EXCEPT !.name = name, !.via = via, !.startTime = now, !.today = Today(now)]
    IN  CASE name = "PRICE_INGESTION" ->
                LET batches == MakeBatches(symbolsList, JobBatchSize)
                    w1 == [w EXCEPT !.jobs[j] = [run EXCEPT !.symbols = symbolsList, !.batches = batches]]
                IN  IF batches = <<>> THEN LogJob(w1, j, "SUCCESS") ELSE StartPriceBatch(w1, j)
          [] name = "DELIVERY_INGESTION" ->
                StartDeliverySymbol([w EXCEPT !.jobs[j] = [run EXCEPT !.symbols = Slice(symbolsList, DeliveryCount)]], j)
          [] OTHER -> LogJob([w EXCEPT !.jobs[j] = run], j, "SUCCESS")

\* the callback of a statement a job run awaits
JobCallback(w, st, ok) ==
    LET j == st.owner.run
    IN  CASE st.op = "insertPriceData" -> PriceInsertDone(w, j, st.owner.pos, ok)
          [] st.op = "insertDeliveryData" -> DeliveryInsertDone(w, j, ok)
          [] OTHER -> LogDone(w, j, ok)

\* the database executes statement st and its callback runs; p is the order
\* in which a SELECT returns its rows
ExecStmt(w, st, ok, p) ==
    LET w1 == [w EXCEPT !.stmts = @ \ {st}, !.db = Apply(@, st, ok, now)]
    IN  IF st.op = "getJobLogs"
        THEN [w1 EXCEPT !.reads = IF ok THEN [limit |-> st.args.limit,
                                             rows |-> GetJobLogs(w.db.job_logs, st.args.limit, p)]
                                  ELSE @]
        ELSE IF st.owner.run = 0 THEN w1
        ELSE JobCallback(w1, st, ok)

TriggerHandler_defaultsToCleanup(w, j, jobType) ==
    CASE jobType = "prices" ->
            [StartJob(w, j, "PRICE_INGESTION", "manual") EXCEPT
                !.web = [route |-> "jobs/trigger", query |-> [jobType |-> jobType], ops |-> <<>>,
                         resp |-> [status |-> 200, message |-> "Price ingestion job triggered"]]]
      [] jobType = "delivery" ->
            [StartJob(w, j, "DELIVERY_INGESTION", "manual") EXCEPT
                !.web = [route |-> "jobs/trigger", query |-> [jobType |-> jobType], ops |-> <<>>,
                         resp |-> [status |-> 200, message |-> "Delivery ingestion job triggered"]]]
      [] OTHER ->
            [StartJob(w, j, "DATA_CLEANUP", "manual") EXCEPT
                !.web = [route |-> "jobs/trigger", query |-> [jobType |-> jobType], ops |-> <<>>,
                         resp |-> [status |-> 200, message |-> "Data cleanup job triggered"]]]

\* POST /api/jobs/trigger/:jobType; j is the run a started job gets
TriggerHandler(w, j, jobType) ==
    CASE jobType = "prices" ->
            [StartJob(w, j, "PRICE_INGESTION", "manual") EXCEPT
                !.web = [route |-> "jobs/trigger", query |-> [jobType |-> jobType], ops |-> <<>>,
                         resp |-> [status |-> 200, message |-> "Price ingestion job triggered"]]]
      [] jobType = "delivery" ->
            [StartJob(w, j, "DELIVERY_INGESTION", "manual") EXCEPT
                !.web = [route |-> "jobs/trigger", query |-> [jobType |-> jobType], ops |-> <<>>,
                         resp |-> [status |-> 200, message |-> "Delivery ingestion job triggered"]]]
      [] jobType = "cleanup" ->
            [StartJob(w, j, "DATA_CLEANUP", "manual") EXCEPT
                !.web = [route |-> "jobs/trigger", query |-> [jobType |-> jobType], ops |-> <<>>,
                         resp |-> [status |-> 200, message |-> "Data cleanup job triggered"]]]
      [] OTHER ->
            [w EXCEPT !.web = [route |-> "jobs/trigger", query |-> [jobType |-> jobType], ops |-> <<>>,
                               resp |-> [status |-> 400, error |-> "Invalid job type"]]]

\* ------------------------------------------------------------ the machine
IdleCall ==
    [kind |-> "none", query |-> NoQuery, sim |-> <<>>, symbols |-> <<>>, batchSize |-> BATCH_SIZE, forceRefresh |-> FALSE,
     pc |-> "idle", results |-> <<>>, cacheHits |-> 0, batches |-> <<>>, index |-> 1,
     attempts |-> MAX_RETRIES, settled |-> <<>>, wakeAt |-> 0]

IdleHist ==
    [tried |-> <<>>, outcome |-> <<>>, startAt |-> <<>>, endAt |-> <<>>, thrownAt |-> -1,
     calledAt |-> -1, returnedAt |-> -1, issued |-> [k \in KeyUniverse |-> 0], orphans |-> 0,
     raw |-> <<>>, fresh |-> {}]

NoResponse == [status |-> -1]

\* no request has been answered by a synchronous handler yet
NoRequest == [route |-> "none", query |-> NoQuery, resp |-> NoResponse, ops |-> <<>>]

\* nothing has been asked of the synchronous handlers, the database or the jobs;
\* the tables exist
InitRest ==
    /\ web = NoRequest
    /\ tfLog = <<>>
    /\ db = EmptyDb
    /\ stmts = {}
    /\ jobs = [j \in RunSlots |-> IdleRun]
    /\ reads = NoRead
    /\ setup = DatabaseReady

\* the store with nothing in it
EmptyCache(keys) == [k \in KeyUniverse \cup keys |-> NoEntry]

\* the server is listening: preloadExcelData has run on what readExcelFile did
Loaded(readResult) ==
    LET reg == preloadExcelData(readResult)
    IN  /\ nifty500Data = reg.nifty500Data
        /\ industryData = reg.industryData
        /\ allSymbolsSet = reg.allSymbolsSet
        /\ phase = "serving"
        /\ cache = EmptyCache(reg.allSymbolsSet)

Init ==
    /\ now = 0
    /\ started = 0
    /\ bypass \in BOOLEAN
    /\ \E sheet \in Sheets : Loaded([threw |-> FALSE, rows |-> sheet])
    /\ call = [r \in Slots |-> IdleCall]
    /\ hist = [r \in Slots |-> IdleHist]
    /\ resp = [r \in Slots |-> NoResponse]
    /\ InitRest

Cur(r) == [c |-> call[r], h |-> hist[r], cache |-> cache, resp |-> NoResponse]

\* what a historical-timeframe request was answered with; sim = <<>> when no
\* multiplier was drawn for it
TimeframeLogEntry(m) ==
    [timeframe |-> RequestedTimeframe(m.c.query), at |-> m.h.calledAt, sim |-> m.c.sim,
     values |-> [i \in DOMAIN m.resp.stocks |->
                    [symbol |-> m.resp.stocks[i].symbol, pChange |-> m.resp.stocks[i].pChange,
                     lastPrice |-> m.resp.stocks[i].lastPrice]],
     cached |-> m.resp.cached, issued |-> m.h.issued]

Commit(r, m) ==
    /\ m.h.orphans <= MaxOrphans
    /\ tfLog' = IF m.c.pc = "done" /\ m.c.kind = "industry" /\ m.resp.status = 200
                   /\ IsHistorical(RequestedTimeframe(m.c.query))
                THEN Append(tfLog, TimeframeLogEntry(m))
                ELSE tfLog
    /\ call' = [call EXCEPT ![r] = m.c]
    /\ hist' = [hist EXCEPT ![r] = m.h]
    /\ cache' = m.cache
    /\ resp' = [resp EXCEPT ![r] = m.resp]

\* slot r can take a new call; limit bounds how many calls are made in all
Free(r, limit) ==
    /\ phase = "serving"
    /\ call[r].pc \in {"idle", "done"}
    /\ hist[r].orphans = 0
    /\ started < limit

Begin(r, m) ==
    /\ Commit(r, m)
    /\ started' = started + 1
    /\ UNCHANGED <<now, registry, web, persistence>>

Resume(r, m) ==
    /\ Commit(r, m)
    /\ UNCHANGED <<now, started, registry, web, persistence>>

ThrowAtOK(m, throwAt) ==
    IF throwAt = 0 THEN TRUE
    ELSE IF m.c.index > Len(m.c.batches) THEN FALSE
    ELSE throwAt <= Len(m.c.batches[m.c.index])

\* the request's query, kept with the call it makes
WithQuery(m, query) == [m EXCEPT !.c.query = query]

\* the forceRefresh argument calculateTimeframeReturns passes to the fetcher
TimeframeForceRefresh(timeframe) == FALSE

\* a caller invokes fetchEquityDetailsInBatches(symbols, batchSize, forceRefresh)
Fetch(r, limit, Lists, Sizes, Throws) ==
    /\ Free(r, limit)
    /\ \E symbols \in Lists, batchSize \in Sizes, forceRefresh \in BOOLEAN, throwAt \in Throws :
          LET m == WithQuery(Cur(r), NoQuery)
          IN  /\ ThrowAtOK(EnterFetch(m, "fetch", symbols, batchSize, forceRefresh), throwAt)
              /\ Begin(r, BeginFetch(m, "fetch", symbols, batchSize, forceRefresh, throwAt))

\* GET /api/market-data?refresh=...
MarketData(r, limit, Throws, Refreshes) ==
    /\ Free(r, limit)
    /\ \E refresh \in Refreshes, throwAt \in Throws :
          IF MarketSymbols = <<>>
          THEN /\ throwAt = 0
               /\ Begin(r, [Cur(r) EXCEPT !.c = [IdleCall EXCEPT !.kind = "market", !.pc = "done",
                                                                !.query = [refresh |-> refresh, timeframe |-> ""]],
                                          !.h = IdleHist,
                                          !.resp = [status |-> 500,
                                                    error |-> "No symbols loaded from NIFTY500.xlsx"]])
          ELSE LET m == WithQuery(Cur(r), [refresh |-> refresh, timeframe |-> ""])
               IN  /\ ThrowAtOK(EnterFetch(m, "market", MarketSymbols, BATCH_SIZE, refresh), throwAt)
                   /\ Begin(r, BeginFetch(m, "market", MarketSymbols, BATCH_SIZE, refresh, throwAt))

\* the signed multipliers Math.random may give the stocks of one request
SimsFor(query) ==
    IF IsHistorical(RequestedTimeframe(query)) THEN [1..Len(IndustrySymbols) -> SimFactors] ELSE {<<>>}

\* GET /api/industry-data?refresh=...&timeframe=...; the fetch is always made
\* with forceRefresh = false, and a historical timeframe is answered from the
\* timeframe cache when it holds the key
IndustryData(r, limit, Throws, Queries) ==
    /\ Free(r, limit)
    /\ \E query \in Queries, throwAt \in Throws : \E sim \in SimsFor(query) :
          IF industryData = <<>>
          THEN /\ throwAt = 0
               /\ Begin(r, [Cur(r) EXCEPT !.c = [IdleCall EXCEPT !.kind = "industry", !.pc = "done",
                                                                !.query = query],
                                          !.h = IdleHist,
                                          !.resp = [status |-> 200, industries |-> <<>>, stocks |-> <<>>,
                                                    cached |-> FALSE, timestamp |-> now,
                                                    warning |-> "No industry data available"]])
          ELSE LET m == [WithQuery(Cur(r), query) EXCEPT !.c.sim = sim]
                   timeframe == RequestedTimeframe(query)
                   forceRefresh == TimeframeForceRefresh(timeframe)
                   cached == CacheGet(cache, TimeframeKey(timeframe, IndustrySymbols), now)
               IN  IF IsHistorical(timeframe) /\ cached.present /\ ~bypass
                   THEN /\ throwAt = 0
                        /\ Begin(r, [m EXCEPT !.c = [IdleCall EXCEPT !.kind = "industry", !.pc = "done",
                                                                     !.query = query,
                                                                     !.symbols = IndustrySymbols],
                                              !.h = [IdleHist EXCEPT !.calledAt = now, !.returnedAt = now],
                                              !.resp = IndustryResponse([results |-> cached.value, cached |-> TRUE],
                                                                        IndustrySymbols, cache, now)])
                   ELSE /\ ThrowAtOK(EnterFetch(m, "industry", IndustrySymbols, BATCH_SIZE, forceRefresh), throwAt)
                        /\ Begin(r, BeginFetch(m, "industry", IndustrySymbols, BATCH_SIZE, forceRefresh, throwAt))

\* a synchronous handler has answered: out = [resp, cache, ops]
Answer(route, query, out) ==
    /\ web' = [route |-> route, query |-> query, resp |-> out.resp, ops |-> out.ops]
    /\ cache' = out.cache
    /\ started' = started + 1
    /\ UNCHANGED <<now, registry, call, hist, resp, tfLog, persistence>>

\* GET /api/delivery-stats; limit bounds how many requests are made in all
DeliveryStats(limit, Queries) ==
    /\ phase = "serving"
    /\ started < limit
    /\ \E query \in Queries, draw \in MockDraws :
          Answer("delivery-stats", query, DeliveryStatsHandler(query, cache, now, draw))

\* GET /api/ai-analysis
AiAnalysis(limit, Queries) ==
    /\ phase = "serving"
    /\ started < limit
    /\ \E query \in Queries, draw \in MockDraws :
          Answer("ai-analysis", query, AiAnalysisHandler(query, cache, now, draw))

World == [jobs |-> jobs, stmts |-> stmts, db |-> db, cache |-> cache, reads |-> reads, web |-> web]

\* a step of the jobs or of the database
JobCommit(w) ==
    /\ jobs' = w.jobs
    /\ stmts' = w.stmts
    /\ db' = w.db
    /\ cache' = w.cache
    /\ reads' = w.reads
    /\ web' = w.web
    /\ UNCHANGED <<now, started, registry, call, hist, resp, tfLog, setup>>

\* the run a job started now gets: the first one not used yet
FreeRun(j) == jobs[j].pc = "idle" /\ \A k \in 1..(j - 1) : jobs[k].pc # "idle"

\* a cron schedule fires; limit bounds how many runs are started in all
Cron(limit, Names) ==
    /\ phase = "serving"
    /\ \E j \in 1..limit, name \in Names :
          /\ FreeRun(j)
          /\ JobCommit(StartJob(World, j, name, "cron"))

\* POST /api/jobs/trigger/:jobType
TriggerJob(limit, Types) ==
    /\ phase = "serving"
    /\ \E j \in 1..limit, jobType \in Types :
          /\ FreeRun(j)
          /\ JobCommit(TriggerHandler(World, j, jobType))

\* a provider call of a job run settles
JobProviderSettle(PriceOuts, TradeOuts) ==
    \E j \in RunSlots :
        \/ /\ jobs[j].pc = "batch"
           /\ \E pos \in DOMAIN jobs[j].tasks, outcome \in PriceOuts :
                 /\ jobs[j].tasks[pos] = "provider"
                 /\ JobCommit(PriceProviderSettled(World, j, pos, outcome))
        \/ /\ jobs[j].pc = "provider"
           /\ \E outcome \in TradeOuts : JobCommit(DeliveryProviderSettled(World, j, outcome))

\* a timer of a job run fires
JobTimer ==
    \E j \in RunSlots :
        /\ jobs[j].pc = "delay"
        /\ now >= jobs[j].wakeAt
        /\ JobCommit(JobTimerFired(World, j))

\* the database executes one of the statements it was handed, in any order
Exec(Oks) ==
    \E st \in stmts, ok \in Oks, p \in NewestFirstOrders(db.job_logs) :
        JobCommit(ExecStmt(World, st, ok, p))

\* some caller invokes dbOps directly; limit bounds how many calls are made
DbCall(limit, Requests) ==
    /\ phase = "serving"
    /\ started < limit
    /\ \E req \in Requests :
          stmts' = stmts \cup {[owner |-> Client(started + 1), op |-> req.op, args |-> req.args]}
    /\ started' = started + 1
    /\ UNCHANGED <<now, registry, cache, call, hist, resp, web, tfLog, db, jobs, reads, setup>>

JobTimerPending == \E j \in RunSlots : jobs[j].pc = "delay" /\ now < jobs[j].wakeAt

\* time passes while jobs and statements are under way
JobTick(Steps, limit) ==
    /\ \E d \in Steps :
          /\ now + d <= limit
          /\ now' = now + d
    /\ UNCHANGED <<started, registry, cache, call, hist, resp, web, tfLog, persistence>>

\* the time a job's delay takes passes
JobDelayPasses(limit) ==
    /\ JobTimerPending
    /\ JobTick({DELIVERY_DELAY_MS, JOB_BATCH_DELAY_MS}, limit)

\* a provider call of the awaited attempt settles
Settle(r, Outs) ==
    /\ call[r].pc = "await"
    /\ \E pos \in DOMAIN call[r].settled, outcome \in Outs :
          /\ call[r].settled[pos] = Pending
          /\ \E m \in {SettleOne(Cur(r), pos, outcome)} : Resume(r, m)

\* the backoff timer fires: the while loop tries the batch again
Retry(r, Throws) ==
    /\ call[r].pc = "backoff"
    /\ now >= call[r].wakeAt
    /\ \E throwAt \in Throws :
          /\ ThrowAtOK(Cur(r), throwAt)
          /\ Resume(r, StartAttempt(Cur(r), throwAt))

\* the inter-batch timer fires: the for loop takes the next batch
NextBatch(r, Throws) ==
    /\ call[r].pc = "delay"
    /\ now >= call[r].wakeAt
    /\ \E throwAt \in Throws :
          LET m == [Cur(r) EXCEPT !.c.index = @ + 1, !.c.attempts = MAX_RETRIES]
          IN  IF m.c.index > Len(m.c.batches)
              THEN throwAt = 0 /\ Resume(r, Return(m))
              ELSE ThrowAtOK(m, throwAt) /\ Resume(r, StartAttempt(m, throwAt))

\* the provider calls of the awaited attempt settle in the order they were made
SettleNext(r, Outs) ==
    /\ call[r].pc = "await"
    /\ \E pos \in DOMAIN call[r].settled, outcome \in Outs :
          /\ call[r].settled[pos] = Pending
          /\ \A earlier \in 1..(pos - 1) : call[r].settled[earlier] # Pending
          /\ Resume(r, SettleOne(Cur(r), pos, outcome))

\* initializeServer calls initializeDatabase()
InitializeDatabase ==
    /\ phase = "boot"
    /\ setup.promise = "none"
    /\ setup' = InitializeDatabaseCall(setup)
    /\ UNCHANGED <<now, started, registry, cache, call, hist, resp, web, tfLog, db, stmts, jobs, reads>>

\* the database has executed one of the CREATE statements and its callback
\* runs; the statements were handed over together and complete in any order
CreateTable(Oks) ==
    /\ phase # "exited"
    /\ \E table \in setup.pending, ok \in Oks : setup' = CreateCallback(setup, table, ok)
    /\ UNCHANGED <<now, started, registry, cache, call, hist, resp, web, tfLog, db, stmts, jobs, reads>>

\* the catch block of initializeServer: process.exit(1)
ServerExit ==
    /\ phase = "boot"
    /\ setup.promise = "rejected"
    /\ phase' = "exited"
    /\ UNCHANGED <<now, started, bypass, nifty500Data, industryData, allSymbolsSet, cache, call, hist, resp,
                   web, tfLog, persistence>>

\* initializeServer: after await initializeDatabase(), await preloadExcelData(),
\* then app.listen
Preload(Reads) ==
    /\ phase = "boot"
    /\ setup.promise = "resolved"
    /\ \E readResult \in Reads :
          LET reg == preloadExcelData(readResult)
          IN  /\ nifty500Data' = reg.nifty500Data
              /\ industryData' = reg.industryData
              /\ allSymbolsSet' = reg.allSymbolsSet
              /\ cache' = EmptyCache(reg.allSymbolsSet)
    /\ phase' = "serving"
    /\ UNCHANGED <<now, started, bypass, call, hist, resp, web, tfLog, persistence>>

\* a provider call that an aborted attempt left behind settles; nobody listens
OrphanSettle(r) ==
    /\ hist[r].orphans > 0
    /\ hist' = [hist EXCEPT ![r].orphans = @ - 1]
    /\ UNCHANGED <<now, started, registry, cache, call, resp, web, tfLog, persistence>>

TimerPending == \E r \in Slots : call[r].pc \in {"backoff", "delay"} /\ now < call[r].wakeAt

Quiet == \A r \in Slots : call[r].pc \in {"idle", "done"}

\* time passes: the second a timer waits for, or a long pause between requests
TickUntil(Steps, limit) ==
    /\ \E d \in Steps :
          /\ now + d <= limit
          /\ IF d = BATCH_DELAY_MS THEN TimerPending ELSE Quiet
          /\ now' = now + d
    /\ UNCHANGED <<started, registry, cache, call, hist, resp, web, tfLog, persistence>>

Tick(Steps) == TickUntil(Steps, MaxTime)

AllLists == SeqsUpTo(KeyUniverse, MaxLen)

NoThrow == {0}

AnyThrow == 0..RetryLen

RetryLists == SeqsUpTo({"A", "B"}, RetryLen)

RetrySizes == {1, 2}

ConcLists == SeqsUpTo({"A", "B"}, MaxLen)

ConcOutcomes == {[rejected |-> TRUE, value |-> NullPayload], [rejected |-> FALSE, value |-> GoodPayload(-1, "Co")]}

\* requests served one after the other, with long pauses between them; the
\* provider never throws synchronously
Next ==
    \/ Fetch(1, MaxCalls, AllLists, BatchSizes, NoThrow)
    \/ MarketData(1, MaxCalls, NoThrow, BOOLEAN)
    \/ IndustryData(1, MaxCalls, NoThrow, AllQueries)
    \/ Settle(1, Outcomes)
    \/ NextBatch(1, NoThrow)
    \/ Tick(TickSteps)

Spec == Init /\ [][Next]_vars

\* one request; a provider call may also throw synchronously, which is the
\* batch-level exception the retry loop is for
NextRetry ==
    \/ Fetch(1, RetryCalls, RetryLists, RetrySizes, AnyThrow)
    \/ MarketData(1, RetryCalls, AnyThrow, {FALSE})
    \/ IndustryData(1, RetryCalls, AnyThrow, PlainQueries)
    \/ Settle(1, Outcomes)
    \/ Retry(1, AnyThrow)
    \/ NextBatch(1, AnyThrow)
    \/ OrphanSettle(1)
    \/ Tick({BATCH_DELAY_MS})

SpecRetry == Init /\ [][NextRetry]_vars

\* requests served concurrently
NextConc ==
    \/ \E r \in Slots : Fetch(r, ConcCalls, ConcLists, RetrySizes, NoThrow)
    \/ \E r \in Slots : Settle(r, ConcOutcomes)
    \/ \E r \in Slots : NextBatch(r, NoThrow)
    \/ Tick({BATCH_DELAY_MS})

SpecConc == Init /\ [][NextConc]_vars

\* the process has been started and nothing is loaded yet
InitBoot ==
    /\ now = 0
    /\ started = 0
    /\ bypass \in BOOLEAN
    /\ nifty500Data = <<>>
    /\ industryData = <<>>
    /\ allSymbolsSet = {}
    /\ phase = "boot"
    /\ cache = EmptyCache({})
    /\ call = [r \in Slots |-> IdleCall]
    /\ hist = [r \in Slots |-> IdleHist]
    /\ resp = [r \in Slots |-> NoResponse]
    /\ InitRest

BootOutcomes == {[rejected |-> TRUE, value |-> NullPayload], [rejected |-> FALSE, value |-> GoodPayload(2, "Co")]}

\* startup with whatever the spreadsheet read did, then one request
NextBoot ==
    \/ Preload(ReadResults)
    \/ MarketData(1, BootCalls, NoThrow, {FALSE})
    \/ IndustryData(1, BootCalls, NoThrow, PlainQueries)
    \/ Settle(1, BootOutcomes)

SpecBoot == InitBoot /\ [][NextBoot]_vars

\* a server loaded from a spreadsheet with more rows than a top list holds
InitRank ==
    /\ now = 0
    /\ started = 0
    /\ bypass = FALSE
    /\ \E sheet \in RankSheets : Loaded([threw |-> FALSE, rows |-> sheet])
    /\ call = [r \in Slots |-> IdleCall]
    /\ hist = [r \in Slots |-> IdleHist]
    /\ resp = [r \in Slots |-> NoResponse]
    /\ InitRest

RankOutcomes == {[rejected |-> FALSE, value |-> GoodPayload(p, "Co")] : p \in {-2, -1, 1}}

\* one market request whose quotes differ in sign and size
NextRank ==
    \/ MarketData(1, RankCalls, NoThrow, {FALSE})
    \/ SettleNext(1, RankOutcomes)

SpecRank == InitRank /\ [][NextRank]_vars

\* a server loaded from a spreadsheet with overlapping industries
InitAgg ==
    /\ now = 0
    /\ started = 0
    /\ bypass = FALSE
    /\ \E sheet \in AggSheets : Loaded([threw |-> FALSE, rows |-> sheet])
    /\ call = [r \in Slots |-> IdleCall]
    /\ hist = [r \in Slots |-> IdleHist]
    /\ resp = [r \in Slots |-> NoResponse]
    /\ InitRest

AggOutcomes ==
    {[rejected |-> TRUE, value |-> NullPayload]}
    \cup {[rejected |-> FALSE, value |-> GoodPayload(p, "Co")] : p \in {-2, -1, 2, 4}}

\* industry requests one after the other; the second finds the first one's
\* quotes in the cache
NextAgg ==
    \/ IndustryData(1, AggCalls, NoThrow, PlainQueries)
    \/ Settle(1, AggOutcomes)

SpecAgg == InitAgg /\ [][NextAgg]_vars

TfQueries == {[refresh |-> FALSE, timeframe |-> tf] : tf \in {"1w", "1m"}}

TfOutcomes == {[rejected |-> TRUE, value |-> NullPayload], [rejected |-> FALSE, value |-> GoodPayload(2, "Co")]}

TfSteps == {TIMEFRAME_TTL * 1000, TIMEFRAME_TTL * 1000 + 1000}

\* industry requests for historical timeframes, up to an hour apart
NextTime ==
    \/ IndustryData(1, TfCalls, NoThrow, TfQueries)
    \/ Settle(1, TfOutcomes)
    \/ TickUntil(TfSteps, MaxTfTime)

SpecTime == Init /\ [][NextTime]_vars

WebSteps == {DELIVERY_TTL * 1000 + 1000}

\* requests to the two endpoints that answer with generated data
NextWeb ==
    \/ DeliveryStats(WebCalls, DeliveryQueries)
    \/ AiAnalysis(WebCalls, AiQueries)
    \/ TickUntil(WebSteps, MaxWebTime)

SpecWeb == Init /\ [][NextWeb]_vars

\* callers of dbOps, one call after the other or several at once
NextDb ==
    \/ DbCall(DbCalls, DbRequests)
    \/ Exec(BOOLEAN)
    \/ JobTick({1000}, MaxJobTime)

SpecDb == Init /\ [][NextDb]_vars

\* a job run started by cron or by the trigger endpoint, beside a request to
\* one of the two read endpoints
NextJobs ==
    \/ Cron(JobRuns, JobNames)
    \/ TriggerJob(JobRuns, JobTypes)
    \/ JobProviderSettle(JobOutcomes, TradeOutcomes)
    \/ JobTimer
    \/ Exec(BOOLEAN)
    \/ JobDelayPasses(MaxJobTime)
    \/ MarketData(1, JobFetchCalls, NoThrow, {FALSE})
    \/ IndustryData(1, JobFetchCalls, NoThrow, PlainQueries)
    \/ Settle(1, ConcOutcomes)

SpecJobs == Init /\ [][NextJobs]_vars

\* a provider call throws synchronously at the first symbol of a batch, or not at all
LiveThrows == {0, 1}

\* one call whose batches may be retried
NextLive ==
    \/ Fetch(1, LiveCalls, RetryLists, RetrySizes, LiveThrows)
    \/ Settle(1, ConcOutcomes)
    \/ Retry(1, LiveThrows)
    \/ NextBatch(1, LiveThrows)
    \/ Tick({BATCH_DELAY_MS})

\* well-formed answers that differ in every field a quote keeps, and one that
\* is not well formed
MixOutcomes ==
    {[rejected |-> FALSE, value |-> p] : p \in {GoodPayload(-1, "Co"), GoodPayload(2, ""), NonNumericPayload}}

\* concurrent calls whose provider answers differ from call to call
NextCache ==
    \/ \E r \in Slots : Fetch(r, ConcCalls, ConcLists, RetrySizes, NoThrow)
    \/ \E r \in Slots : Settle(r, MixOutcomes)
    \/ \E r \in Slots : NextBatch(r, NoThrow)
    \/ Tick({BATCH_DELAY_MS})

SpecCache == Init /\ [][NextCache]_vars

\* quotes whose lastPrice tells the provider answers of two runs apart
OverlapOutcomes ==
    {[rejected |-> FALSE, value |-> [GoodPayload(2, "Co") EXCEPT !.lastPrice = price]] : price \in {100, 101}}

OverlapTrades ==
    {[rejected |-> FALSE, value |-> [hasDP |-> TRUE, pct |-> pct, pctIsNumber |-> TRUE]] : pct \in {45, 60}}

\* the registry and the bypass play no part in the jobs
InitOverlap == Init /\ ~bypass /\ allSymbolsSet = {"A", "B"}

\* a run of an ingestion job started by cron or by the trigger endpoint, and a
\* second one started by the trigger endpoint while the first is under way or
\* after it
NextOverlap ==
    \/ Cron(1, {"PRICE_INGESTION", "DELIVERY_INGESTION"})
    \/ TriggerJob(MaxRuns, {"prices", "delivery"})
    \/ JobProviderSettle(OverlapOutcomes, OverlapTrades)
    \/ JobTimer
    \/ Exec({TRUE})
    \/ JobDelayPasses(MaxJobTime)

SpecOverlap == InitOverlap /\ [][NextOverlap]_vars

\* the process has been started: no table has been created, nothing is loaded
InitSetup ==
    /\ now = 0
    /\ started = 0
    /\ bypass \in BOOLEAN
    /\ nifty500Data = <<>>
    /\ industryData = <<>>
    /\ allSymbolsSet = {}
    /\ phase = "boot"
    /\ cache = EmptyCache({})
    /\ call = [r \in Slots |-> IdleCall]
    /\ hist = [r \in Slots |-> IdleHist]
    /\ resp = [r \in Slots |-> NoResponse]
    /\ web = NoRequest
    /\ tfLog = <<>>
    /\ db = EmptyDb
    /\ stmts = {}
    /\ jobs = [j \in RunSlots |-> IdleRun]
    /\ reads = NoRead
    /\ setup = NotInitialized

\* startup from the first line of initializeServer on
NextSetup ==
    \/ InitializeDatabase
    \/ CreateTable(BOOLEAN)
    \/ ServerExit
    \/ Preload(ReadResults)

SpecSetup == InitSetup /\ [][NextSetup]_vars

\* every provider call settles in the end, time passes and the event loop runs
\* every timer that is due
SpecLive ==
    /\ Init
    /\ [][NextLive]_vars
    /\ WF_vars(Settle(1, ConcOutcomes))
    /\ WF_vars(Retry(1, LiveThrows))
    /\ WF_vars(NextBatch(1, LiveThrows))
    /\ WF_vars(Tick({BATCH_DELAY_MS}))

\* ------------------------------------------------------------- properties
Active(r) == call[r].kind # "none"

ValidOf(r) == {k \in allSymbolsSet : Contains(call[r].symbols, k)}

InSomeBatch(c, k) == \E b \in DOMAIN c.batches : Contains(c.batches[b], k)

\* the quotes an HTTP response carries
ResponseQuotes(r) ==
    IF resp[r].status # 200 THEN <<>>
    ELSE IF call[r].kind = "market" THEN resp[r].gainers \o resp[r].losers
    ELSE IF call[r].kind = "industry" THEN resp[r].stocks
    ELSE <<>>

\* C1: every quote fetchEquityDetailsInBatches has collected or returned, from
\* the cache or from the provider, is for a symbol of allSymbolsSet
C1_QuotesAreRegistered ==
    \A r \in Slots :
        /\ \A i \in DOMAIN call[r].results : call[r].results[i].symbol \in allSymbolsSet
        /\ (call[r].kind = "fetch" /\ call[r].pc = "done") =>
              \A i \in DOMAIN resp[r].results : resp[r].results[i].symbol \in allSymbolsSet

C1_Witness ==
    \E r \in Slots :
        /\ call[r].kind = "fetch" /\ call[r].pc = "done"
        /\ Contains(call[r].symbols, "X")
        /\ \E i \in DOMAIN resp[r].results : resp[r].results[i].src = 0

Rejected(raw) == {pos \in DOMAIN raw : raw[pos] # Pending /\ raw[pos].rejected}

GoodAnswers(raw) ==
    {pos \in DOMAIN raw : /\ raw[pos] # Pending
                          /\ ~raw[pos].rejected
                          /\ ~raw[pos].value.isNull
                          /\ raw[pos].value.hasPriceInfo
                          /\ raw[pos].value.pChangeIsNumber
                          /\ raw[pos].value.lastPriceIsNumber}

\* C2: a provider call that rejects neither drops its batch nor makes the batch
\* be tried again, and once the batch has settled every other symbol of it that
\* got a well-formed payload has its quote in the results
C2_PartialFailureIsolation ==
    \A r \in Slots :
        LET c == call[r]
            h == hist[r]
        IN  (Active(r) /\ Rejected(h.raw) # {}) =>
               /\ c.pc # "backoff"
               /\ c.attempts = MAX_RETRIES
               /\ h.tried[c.index] = 1
               /\ h.outcome[c.index] # "abandoned"
               /\ (\A pos \in DOMAIN h.raw : h.raw[pos] # Pending) =>
                     /\ h.outcome[c.index] = "ok"
                     /\ \A pos \in GoodAnswers(h.raw) :
                           \E i \in DOMAIN c.results :
                               /\ c.results[i].symbol = c.batches[c.index][pos]
                               /\ c.results[i].src = c.index
                               /\ c.results[i].pChange = h.raw[pos].value.pChange

C2_Witness ==
    \E r \in Slots :
        /\ Rejected(hist[r].raw) # {}
        /\ GoodAnswers(hist[r].raw) # {}
        /\ hist[r].outcome[call[r].index] = "ok"
        /\ \E i \in DOMAIN call[r].results : call[r].results[i].src = call[r].index

\* C3: a quote taken from the result cache, by the fetcher or by the fallback
\* of the industry endpoint, is younger than 300 s when it is read; a symbol
\* whose entry has reached 300 s is not served from it but put in a batch
C3_Step ==
    \A r \in Slots :
        /\ (started' = started + 1 /\ call'[r] # call[r]) =>
              /\ \A i \in DOMAIN call'[r].results :
                    call'[r].results[i].src = 0 =>
                        LET e == cache[call'[r].results[i].symbol]
                        IN  e.present /\ now - e.timestamp < 300 * 1000
              /\ \A k \in allSymbolsSet :
                    (Contains(call'[r].symbols, k) /\ cache[k].present
                        /\ now - cache[k].timestamp >= 300 * 1000) =>
                        /\ \A i \in DOMAIN call'[r].results : call'[r].results[i].symbol # k
                        /\ InSomeBatch(call'[r], k)
        /\ (resp'[r] # resp[r] /\ call'[r].kind = "industry" /\ resp'[r].status = 200) =>
              \A i \in DOMAIN resp'[r].stocks :
                  resp'[r].stocks[i].src = -1 =>
                      LET e == cache'[resp'[r].stocks[i].symbol]
                      IN  e.present /\ now' - e.timestamp < 300 * 1000

C3_CacheFreshness == [][C3_Step]_vars

C3_Witness ==
    \E r \in Slots :
        /\ call[r].pc = "await"
        /\ \E i \in DOMAIN call[r].results : call[r].results[i].src = 0
        /\ \E k \in allSymbolsSet :
              /\ cache[k].present
              /\ hist[r].calledAt - cache[k].timestamp >= 300 * 1000
              /\ InSomeBatch(call[r], k)

\* C4: with FORCE_CACHE_BYPASS set no call takes anything from the cache: every
\* valid symbol is put in a batch and the provider is invoked for it, also when
\* a fresh entry exists, and every quote fetched is written to the cache
C4_BypassAlwaysFetches ==
    bypass =>
        \A r \in Slots :
            Active(r) =>
                /\ call[r].cacheHits = 0
                /\ \A i \in DOMAIN call[r].results : call[r].results[i].src > 0
                /\ \A k \in ValidOf(r) : InSomeBatch(call[r], k)
                /\ call[r].pc = "done" => \A k \in ValidOf(r) : hist[r].issued[k] >= 1
                /\ \A i \in DOMAIN call[r].results :
                      LET e == cache[call[r].results[i].symbol]
                      IN  e.present /\ e.timestamp >= hist[r].calledAt

C4_Witness ==
    /\ bypass
    /\ \E r \in Slots :
          /\ call[r].pc = "done"
          /\ \E k \in hist[r].fresh :
                /\ hist[r].issued[k] >= 1
                /\ \E i \in DOMAIN call[r].results : call[r].results[i].symbol = k
                /\ cache[k].timestamp < 300 * 1000

\* C5: with FORCE_CACHE_BYPASS set no response of /api/market-data or of
\* /api/industry-data carries a quote read from the cache
C5_NoCachedQuoteUnderBypass ==
    bypass =>
        \A r \in Slots :
            (call[r].pc = "done" /\ call[r].kind \in {"market", "industry"}) =>
                \A i \in DOMAIN ResponseQuotes(r) : ResponseQuotes(r)[i].src > 0


\* C6: a batch is attempted at most MAX_RETRIES times; an attempt after the
\* first is made only from the backoff that follows a batch-level exception,
\* at least 1 s after it, and never once an attempt of the batch has succeeded
C6_Step ==
    \A r \in Slots :
        \A i \in DOMAIN hist[r].tried :
            (started' = started /\ hist'[r].tried[i] # hist[r].tried[i]) =>
                /\ hist'[r].tried[i] = hist[r].tried[i] + 1
                /\ hist'[r].tried[i] <= 5
                /\ hist[r].tried[i] >= 1 =>
                      /\ call[r].pc = "backoff"
                      /\ call[r].index = i
                      /\ hist[r].outcome[i] = "todo"
                      /\ hist[r].thrownAt >= hist[r].startAt[i]
                      /\ now >= hist[r].thrownAt + 1000

C6_BoundedRetry == [][C6_Step]_vars

C6_Witness ==
    \E r \in Slots :
        \E i \in DOMAIN hist[r].tried : hist[r].tried[i] = 5 /\ hist[r].outcome[i] = "ok"

QuotesFrom(results, tag) == {i \in DOMAIN results : results[i].src = tag}

IsPrefix(s, t) == Len(s) <= Len(t) /\ \A i \in DOMAIN s : s[i] = t[i]

\* C7: a batch whose retries are used up contributes no quote and does not end
\* the call: every batch is still attempted, the call returns normally, the
\* cache hits stay in the results and no collected quote is ever dropped
C7_Inv ==
    \A r \in Slots :
        Active(r) =>
            /\ \A i \in DOMAIN hist[r].outcome :
                  hist[r].outcome[i] = "abandoned" => QuotesFrom(call[r].results, i) = {}
            /\ Cardinality(QuotesFrom(call[r].results, 0)) = call[r].cacheHits
            /\ call[r].pc = "done" =>
                  /\ resp[r].status # -2
                  /\ call[r].kind = "fetch" => resp[r].status = 0 /\ resp[r].results = call[r].results
                  /\ \A i \in DOMAIN hist[r].outcome :
                        hist[r].outcome[i] \in {"ok", "abandoned"} /\ hist[r].tried[i] >= 1

C7_Step ==
    \A r \in Slots : started' = started => IsPrefix(call[r].results, call'[r].results)

C7_AbandonedBatchIsSkipped == []C7_Inv /\ [][C7_Step]_vars

C7_Witness ==
    \E r \in Slots :
        /\ call[r].kind = "fetch" /\ call[r].pc = "done" /\ resp[r].status = 0
        /\ hist[r].outcome = <<"ok", "abandoned", "ok">>
        /\ QuotesFrom(resp[r].results, 1) # {}
        /\ QuotesFrom(resp[r].results, 3) # {}

\* C8: the first provider call of batch i+1 is made at least BATCH_DELAY_MS
\* after batch i ended, whether it succeeded or was given up, and the call
\* returns at the moment the last batch ends, without a delay
C8_InterBatchDelay ==
    \A r \in Slots :
        Active(r) =>
            /\ \A i \in DOMAIN hist[r].startAt :
                  (i > 1 /\ hist[r].startAt[i] # -1) =>
                      /\ hist[r].endAt[i - 1] # -1
                      /\ hist[r].startAt[i] - hist[r].endAt[i - 1] >= 1000
            /\ call[r].pc = "delay" => call[r].index < Len(call[r].batches)
            /\ (call[r].pc = "done" /\ call[r].batches # <<>>) =>
                  hist[r].returnedAt = hist[r].endAt[Len(call[r].batches)]

C8_Witness ==
    \E r \in Slots :
        /\ call[r].pc = "done"
        /\ Len(call[r].batches) = 3
        /\ hist[r].outcome[1] = "abandoned"
        /\ hist[r].outcome[2] = "ok"
        /\ hist[r].startAt[2] >= hist[r].endAt[1] + 1000
        /\ hist[r].startAt[3] >= hist[r].endAt[2] + 1000

RECURSIVE SumUpTo(_, _)
SumUpTo(F(_), n) == IF n = 0 THEN 0 ELSE F(n) + SumUpTo(F, n - 1)

InFlightOf(r) == PendingCount(call[r].settled) + hist[r].orphans

\* provider calls that have been issued and have not settled
InFlight == SumUpTo(InFlightOf, NumSlots)

\* C9 as claimed: all provider calls in flight, over all requests being served,
\* fit in one batch's width
C9_InFlightAtMostOneBatch ==
    InFlight > 0 => \E r \in Slots : call[r].pc = "await" /\ InFlight <= call[r].batchSize

\* C9 amended: each running call has at most batchSize provider calls of the
\* attempt it awaits in flight
C9_InFlightPerCall ==
    \A r \in Slots : PendingCount(call[r].settled) <= call[r].batchSize

C9_Witness ==
    /\ call[1].pc = "await" /\ call[2].pc = "await"
    /\ Len(call[1].batches) >= 2
    /\ PendingCount(call[1].settled) = call[1].batchSize
    /\ InFlight > call[1].batchSize
    /\ InFlight > call[2].batchSize

\* C10: when the first provider call of batch N+1 is issued, batch N has ended
\* and no provider call issued for an earlier batch is still unsettled
C10_Step ==
    \A r \in Slots :
        (started' = started /\ call'[r].index = call[r].index + 1) =>
            /\ hist[r].outcome[call[r].index] # "todo"
            /\ PendingCount(call[r].settled) = 0
            /\ hist[r].orphans = 0

C10_BatchOrder == [][C10_Step]_vars

\* ------------------------------------------- properties of the aggregation
\* the industry answer of slot r carries an industries list
IndustryAnswer(r) == call[r].kind = "industry" /\ call[r].pc = "done" /\ resp[r].status = 200

\* the registry lists symbol under industry
ListedUnder(symbol, industry) ==
    \E k \in DOMAIN industryData :
        industryData[k].industry = industry /\ Contains(industryData[k].symbols, symbol)

\* positions of the returned quotes that belong to industry
Contributing(r, industry) ==
    {j \in DOMAIN resp[r].stocks : ListedUnder(resp[r].stocks[j].symbol, industry)}

RECURSIVE SumPChange(_, _)
SumPChange(stocks, positions) ==
    IF positions = {} THEN 0
    ELSE LET j == CHOOSE x \in positions : TRUE
         IN  stocks[j].pChange + SumPChange(stocks, positions \ {j})

\* avg is the 2-decimal string nearest to total / count
NearestTwoDecimals(avg, total, count) ==
    /\ avg.isString
    /\ LET diff == 200 * total - 2 * count * ParseFloat(avg)
       IN  diff <= count /\ -diff <= count

\* C11: for every industry of an /api/industry-data response, stockCount is the
\* number of returned quotes that belong to the industry, avgPChange is the sum
\* of their pChange divided by stockCount and rounded to 2 decimals, and an
\* industry without a contributing quote is not in the list
C11_AggregationIsCorrect ==
    \A r \in Slots :
        IndustryAnswer(r) =>
            \A i \in DOMAIN resp[r].industries :
                LET e == resp[r].industries[i]
                    mine == Contributing(r, e.industry)
                IN  /\ e.stockCount = Cardinality(mine)
                    /\ e.stockCount > 0
                    /\ NearestTwoDecimals(e.avgPChange, SumPChange(resp[r].stocks, mine), e.stockCount)

\* quotes +2 and +4 of one industry average to "3.00"
C11_Witness ==
    \E r \in Slots :
        /\ IndustryAnswer(r)
        /\ \E i \in DOMAIN resp[r].industries :
              LET e == resp[r].industries[i]
              IN  /\ e.stockCount = 2
                  /\ {e.stocks[1].pChange, e.stocks[2].pChange} = {2, 4}
                  /\ e.avgPChange = [isString |-> TRUE, negative |-> FALSE, cents |-> 300]

\* C12: in every industry of the response the stocks are in descending order of
\* pChange and topStock is the first of them, a quote of the industry whose
\* pChange is maximal
C12_StocksSortedTopFirst ==
    \A r \in Slots :
        IndustryAnswer(r) =>
            \A i \in DOMAIN resp[r].industries :
                LET e == resp[r].industries[i]
                IN  /\ \A a, b \in DOMAIN e.stocks : a < b => e.stocks[a].pChange >= e.stocks[b].pChange
                    /\ e.stocks # <<>>
                    /\ e.topStock = e.stocks[1]
                    /\ ListedUnder(e.topStock.symbol, e.industry)
                    /\ \A j \in Contributing(r, e.industry) :
                          e.topStock.pChange >= resp[r].stocks[j].pChange

\* an industry whose quotes came back in ascending order and were reordered
C12_Witness ==
    \E r \in Slots :
        /\ IndustryAnswer(r)
        /\ \E i \in DOMAIN resp[r].industries :
              LET e == resp[r].industries[i]
              IN  /\ Len(e.stocks) >= 2
                  /\ e.stocks[1].pChange > e.stocks[2].pChange
                  /\ \E a, b \in DOMAIN resp[r].stocks :
                        /\ a < b
                        /\ resp[r].stocks[a] = e.stocks[2]
                        /\ resp[r].stocks[b] = e.stocks[1]

\* position of industry among the keys of the registry
RegistryPos(industry) == CHOOSE k \in DOMAIN industryData : industryData[k].industry = industry

\* the first returned quote that belongs to industry
FirstQuote(r, industry) ==
    CHOOSE j \in Contributing(r, industry) : \A other \in Contributing(r, industry) : j <= other

\* industry a was handed to the sort before industry b
InputBefore(r, a, b) ==
    \/ FirstQuote(r, a) < FirstQuote(r, b)
    \/ FirstQuote(r, a) = FirstQuote(r, b) /\ RegistryPos(a) < RegistryPos(b)

\* C13: the industries of the response are in descending order of the number
\* their 2-decimal avgPChange parses to, and industries with equal rounded
\* averages keep the order they had before the sort
C13_RankingIsStable ==
    \A r \in Slots :
        IndustryAnswer(r) =>
            \A i, j \in DOMAIN resp[r].industries :
                i < j =>
                    LET a == resp[r].industries[i]
                        b == resp[r].industries[j]
                    IN  /\ ParseFloat(a.avgPChange) >= ParseFloat(b.avgPChange)
                        /\ ParseFloat(a.avgPChange) = ParseFloat(b.avgPChange) =>
                              InputBefore(r, a.industry, b.industry)

\* three industries, the two best tied, and the sort moved one industry past
\* another
C13_Witness ==
    \E r \in Slots :
        /\ IndustryAnswer(r)
        /\ Len(resp[r].industries) = 3
        /\ ParseFloat(resp[r].industries[1].avgPChange) = ParseFloat(resp[r].industries[2].avgPChange)
        /\ ParseFloat(resp[r].industries[2].avgPChange) > ParseFloat(resp[r].industries[3].avgPChange)
        /\ InputBefore(r, resp[r].industries[3].industry, resp[r].industries[2].industry)

\* -------------------------------------------- properties of the top lists
MarketAnswer(r) == call[r].kind = "market" /\ call[r].pc = "done" /\ resp[r].status = 200

CountOf(seq, v) == Cardinality({i \in DOMAIN seq : seq[i] = v})

\* list takes its entries from quotes, none more often than quotes has it
TakenFrom(list, quotes) == \A i \in DOMAIN list : CountOf(list, list[i]) <= CountOf(quotes, list[i])

\* positions of the quotes that list leaves out
LeftOut(list, quotes) == {j \in DOMAIN quotes : CountOf(list, quotes[j]) < CountOf(quotes, quotes[j])}

Negatives(quotes) == {j \in DOMAIN quotes : quotes[j].pChange < 0}

\* C14: the losers of /api/market-data are quotes with pChange below 0 only, the
\* most negative first, and they are the (up to) 10 most negative of the valid
\* quotes; a quote with pChange >= 0 is never among them
C14_LosersAreMostNegative ==
    \A r \in Slots :
        MarketAnswer(r) =>
            LET quotes == call[r].results
                losers == resp[r].losers
            IN  /\ \A i \in DOMAIN losers : losers[i].pChange < 0
                /\ \A a, b \in DOMAIN losers : a < b => losers[a].pChange <= losers[b].pChange
                /\ Len(losers) = Min(10, Cardinality(Negatives(quotes)))
                /\ TakenFrom(losers, quotes)
                /\ \A j \in LeftOut(losers, quotes) \cap Negatives(quotes) :
                      \A i \in DOMAIN losers : losers[i].pChange <= quotes[j].pChange

\* more than 10 negative quotes of different size: one of them is cut off
C14_Witness ==
    \E r \in Slots :
        /\ MarketAnswer(r)
        /\ Cardinality(Negatives(call[r].results)) > 10
        /\ Len(resp[r].losers) = 10
        /\ resp[r].losers[1].pChange < resp[r].losers[10].pChange

\* C15: the gainers of /api/market-data are min(10, number of valid quotes)
\* quotes in descending order of pChange, and no quote left out has a higher
\* pChange than a quote among them
C15_GainersAreHighest ==
    \A r \in Slots :
        MarketAnswer(r) =>
            LET quotes == call[r].results
                gainers == resp[r].gainers
            IN  /\ Len(gainers) = Min(10, Len(quotes))
                /\ \A a, b \in DOMAIN gainers : a < b => gainers[a].pChange >= gainers[b].pChange
                /\ TakenFrom(gainers, quotes)
                /\ \A j \in LeftOut(gainers, quotes) :
                      \A i \in DOMAIN gainers : gainers[i].pChange >= quotes[j].pChange

\* 11 valid quotes that came back lowest first: the top 10 were reordered and
\* the lowest was cut off
C15_Witness ==
    \E r \in Slots :
        /\ MarketAnswer(r)
        /\ Len(call[r].results) > 10
        /\ Len(resp[r].gainers) = 10
        /\ call[r].results[1].pChange < call[r].results[Len(call[r].results)].pChange
        /\ resp[r].gainers[1].pChange > resp[r].gainers[10].pChange

\* ------------------------------------------------ properties of the startup
\* C16: once preloadExcelData has finished, whatever the spreadsheet read did,
\* the industry index is not empty, allSymbolsSet is not empty, and every symbol
\* of the industry index is in allSymbolsSet
C16_RegistryNeverEmpty ==
    phase = "serving" =>
        /\ industryData # <<>>
        /\ allSymbolsSet # {}
        /\ \A k \in DOMAIN industryData :
              \A i \in DOMAIN industryData[k].symbols : industryData[k].symbols[i] \in allSymbolsSet

\* the read returned rows, none of them with a symbol, and the built-in
\* mapping was taken
C16_Witness ==
    /\ phase = "serving"
    /\ nifty500Data # <<>>
    /\ industryData = DEFAULT_INDUSTRY_DATA
    /\ "TCS" \in allSymbolsSet

\* the fetch the market request made has returned without a quote
FetchedNothing(r) == hist[r].calledAt >= 0 /\ call[r].results = <<>>

\* C17: /api/market-data answers 500 only if the registry is empty or the fetch
\* produced no valid quote; with a registry that is not empty, the built-in one
\* included, and a valid quote for a registered symbol, the answer is 200
C17_MarketErrorOnlyWhenEmpty ==
    \A r \in Slots :
        (call[r].kind = "market" /\ call[r].pc = "done" /\ resp[r].status = 500) =>
            \/ industryData = <<>>
            \/ allSymbolsSet = {}
            \/ FetchedNothing(r)

\* --------------------------------------- properties of the industry answer
\* the fetch of slot r returned no quote, and for an industry request the store
\* held no fresh quote of a requested symbol when the answer was made
NoQuoteAvailable(r) ==
    /\ call[r].pc = "done"
    /\ call[r].results = <<>>
    /\ call[r].kind = "industry" =>
          \A i \in DOMAIN call[r].symbols :
              ~IsFresh(CacheGet(cache, call[r].symbols[i], hist[r].returnedAt), hist[r].returnedAt)

\* C18: with no quote available /api/industry-data answers 200 with an empty
\* industries list and a warning, never 500, while /api/market-data answers 500
\* with an error message
C18_EmptyResultAsymmetry ==
    \A r \in Slots :
        NoQuoteAvailable(r) =>
            /\ call[r].kind = "industry" =>
                  /\ resp[r].status = 200
                  /\ resp[r].industries = <<>>
                  /\ "warning" \in DOMAIN resp[r]
            /\ call[r].kind = "market" =>
                  /\ resp[r].status = 500
                  /\ "error" \in DOMAIN resp[r]

\* every provider call of an industry request failed and nothing was cached
C18_Witness ==
    \E r \in Slots :
        /\ call[r].kind = "industry"
        /\ NoQuoteAvailable(r)
        /\ \E k \in KeyUniverse : hist[r].issued[k] > 0
        /\ resp[r].status = 200
        /\ resp[r].industries = <<>>
        /\ resp[r].warning = "No valid industry data retrieved"

\* C19: /api/industry-data with refresh=true calls the provider for every
\* registry symbol whatever the cache holds, and answers with the quotes of
\* that fetch and cached = false
C19_RefreshBypassesCache ==
    \A r \in Slots :
        (IndustryAnswer(r) /\ call[r].query.refresh) =>
            /\ \A i \in DOMAIN call[r].symbols : hist[r].issued[call[r].symbols[i]] >= 1
            /\ \A j \in DOMAIN resp[r].stocks : resp[r].stocks[j].src >= 1
            /\ resp[r].cached = FALSE

\* C20: every successful /api/industry-data answer has a timeframe field with
\* the timeframe of the request, '1d' when the request gives none
C20_ResponseCarriesTimeframe ==
    \A r \in Slots :
        IndustryAnswer(r) =>
            /\ "timeframe" \in DOMAIN resp[r]
            /\ resp[r].timeframe = RequestedTimeframe(call[r].query)

\* ------------------------------------- properties of the fetcher's output
\* answers of the provider that are no usable payload
Malformed(raw) == {pos \in DOMAIN raw : raw[pos] # Pending /\ ~raw[pos].rejected} \ GoodAnswers(raw)

\* the step in which slot r finishes the batch it was awaiting
BatchCompletes(r) ==
    /\ call[r].pc = "await"
    /\ hist[r].outcome[call[r].index] = "todo"
    /\ hist'[r].outcome[call[r].index] = "ok"

\* the quotes slot r appends in this step
NewQuotes(r) == SubSeq(call'[r].results, Len(call[r].results) + 1, Len(call'[r].results))

C28_Step ==
    \A r \in Slots :
        /\ BatchCompletes(r) =>
              LET batch == call[r].batches[call[r].index]
                  raw == hist'[r].raw
                  good == GoodAnswers(raw)
              IN  /\ Len(NewQuotes(r)) = Cardinality(good)
                  /\ \A i \in DOMAIN NewQuotes(r) :
                        \E pos \in good :
                            /\ NewQuotes(r)[i].symbol = batch[pos]
                            /\ NewQuotes(r)[i].pChange = raw[pos].value.pChange
                            /\ NewQuotes(r)[i].lastPrice = raw[pos].value.lastPrice
                  /\ \A k \in DOMAIN cache :
                        cache'[k] # cache[k] =>
                            \E pos \in good :
                                /\ batch[pos] = k
                                /\ cache'[k].pChange = raw[pos].value.pChange
                                /\ cache'[k].lastPrice = raw[pos].value.lastPrice
                  /\ call'[r].pc \in {"delay", "done"}
                  /\ call'[r].pc = "done" => resp'[r].status \in {0, 200, 500}
                  /\ call'[r].attempts = call[r].attempts
        /\ (call[r].pc = "await" /\ call'[r] # call[r] /\ ~BatchCompletes(r)) =>
              /\ (\A pos \in DOMAIN hist'[r].raw : hist'[r].raw[pos] = Pending \/ ~hist'[r].raw[pos].rejected) =>
                    call'[r].pc = "await"
              /\ call'[r].results = call[r].results
              /\ cache' = cache

\* C28: a malformed provider payload is dropped and nothing else happens: every
\* quote fetchEquityDetailsInBatches appends and every cache entry it writes
\* comes from a payload with priceInfo and numeric pChange and lastPrice, and a
\* payload that is null, lacks priceInfo or has a non-numeric price field gives
\* no quote, no cache write and no error
C28_MalformedPayloadsDiscarded == [][C28_Step]_vars

\* a batch has finished in which one payload was malformed and one was kept
C28_Witness ==
    \E r \in Slots :
        /\ call[r].pc = "done"
        /\ call[r].batches # <<>>
        /\ hist[r].outcome[call[r].index] = "ok"
        /\ Malformed(hist[r].raw) # {}
        /\ GoodAnswers(hist[r].raw) # {}
        /\ Len(call[r].results) = Cardinality(GoodAnswers(hist[r].raw))

\* the fetcher used the cache in the call of slot r
UsedCache(r) == ~call[r].forceRefresh /\ ~bypass

\* C29: without a batch-level exception the provider is called exactly once
\* for every valid symbol that is not served from the cache and never for a
\* symbol served from the cache; with forceRefresh or the bypass it is called
\* exactly once for every valid symbol; a per-symbol failure is not retried
C29_ProviderCalledOncePerSymbol ==
    \A r \in Slots :
        (Active(r) /\ call[r].pc = "done" /\ hist[r].thrownAt = -1) =>
            \A k \in KeyUniverse :
                hist[r].issued[k] =
                    IF k \in ValidOf(r) /\ ~(UsedCache(r) /\ k \in hist[r].fresh) THEN 1 ELSE 0

\* C30: the boolean returned with the quotes is true exactly when a returned
\* quote was served from the cache, and false whenever forceRefresh or the
\* bypass is set
C30_CachedFlagMeansCacheHit ==
    \A r \in Slots :
        (call[r].kind = "fetch" /\ call[r].pc = "done") =>
            /\ resp[r].cached = (\E i \in DOMAIN resp[r].results : resp[r].results[i].src = 0)
            /\ (call[r].forceRefresh \/ bypass) => ~resp[r].cached

\* one quote of the answer came from the cache and one from the provider
C30_Witness ==
    \E r \in Slots :
        /\ call[r].kind = "fetch" /\ call[r].pc = "done"
        /\ resp[r].cached
        /\ \E i, j \in DOMAIN resp[r].results :
              resp[r].results[i].src = 0 /\ resp[r].results[j].src >= 1

\* ------------------------------------ properties of the generated-data endpoints
\* the latest request lacks a required parameter or names one symbol twice
BadRequest ==
    \/ web.route = "delivery-stats" /\ (web.query.symbol = "" \/ web.query.date = "")
    \/ web.route = "ai-analysis" /\ (web.query.leader = "" \/ web.query.follower = ""
                                       \/ web.query.leader = web.query.follower)

C21_Step ==
    /\ BadRequest' =>
          /\ web'.resp.status = 400
          /\ "error" \in DOMAIN web'.resp /\ web'.resp.error # ""
          /\ web'.ops = <<>>
    /\ (BadRequest' /\ web' # web) => cache' = cache

\* C21: GET /api/delivery-stats without symbol or date, and GET /api/ai-analysis
\* without leader or follower or with leader = follower, answer 400 with an
\* error message, and the request neither reads the cache nor generates or
\* caches any data
C21_ValidationPrecedesWork == [][C21_Step]_vars

\* a request without date was refused while the symbol's result was cached
C21_Witness ==
    /\ web.route = "delivery-stats"
    /\ web.query.symbol = "A" /\ web.query.date = ""
    /\ web.resp.status = 400
    /\ CacheGet(cache, "delivery_A_d1", now).present

\* ------------------------------------------- properties of the timeframe cache
TtlMs == TIMEFRAME_TTL * 1000

\* no earlier request for the same timeframe lies within 30 minutes before i
OpensWindow(i) ==
    \A k \in 1..(i - 1) :
        tfLog[k].timeframe = tfLog[i].timeframe => tfLog[i].at - tfLog[k].at > TtlMs

\* C22: with the bypass off, a request for a historical timeframe made within
\* 30 minutes of the first one for that timeframe returns the first one's
\* per-symbol values with cached = true and calls the provider for no symbol;
\* the first request after 30 minutes computes the values anew
C22_TimeframeCachedThirtyMinutes ==
    ~bypass =>
        \A i, j \in DOMAIN tfLog :
            (i < j /\ tfLog[i].timeframe = tfLog[j].timeframe /\ OpensWindow(i)) =>
                IF tfLog[j].at - tfLog[i].at <= TtlMs
                THEN /\ tfLog[j].values = tfLog[i].values
                     /\ tfLog[j].cached
                     /\ \A k \in KeyUniverse : tfLog[j].issued[k] = 0
                ELSE OpensWindow(j) => tfLog[j].sim # <<>>

\* ------------------------------------------- properties of the persistence layer
Tables == {"prices", "delivery_stats"}

InsertOp(table) == IF table = "prices" THEN "insertPriceData" ELSE "insertDeliveryData"

ValueOf(table, row) == IF table = "prices" THEN row.close_price ELSE row.delivery_percentage

ArgOf(table, args) == IF table = "prices" THEN args.close ELSE args.pct

\* the inserts into table for row's key that succeeded, as positions of the journal
InsertsFor(table, symbol, date) ==
    {n \in DOMAIN db.journal :
        /\ db.journal[n].op = InsertOp(table) /\ db.journal[n].ok
        /\ db.journal[n].args.symbol = symbol /\ db.journal[n].args.date = date}

Latest(S) == CHOOSE n \in S : \A k \in S : k <= n

\* C23: each of the tables prices and delivery_stats holds at most one row per
\* (symbol, date), a row for every key that was inserted, and the row carries
\* the values of the most recent insert for its key
C23_UniqueKeyLastWriteWins ==
    \A table \in Tables :
        LET rows == db[table]
        IN  /\ \A i, k \in DOMAIN rows :
                  (rows[i].symbol = rows[k].symbol /\ rows[i].date = rows[k].date) => i = k
            /\ \A i \in DOMAIN rows :
                  LET done == InsertsFor(table, rows[i].symbol, rows[i].date)
                  IN  done # {} /\ ValueOf(table, rows[i]) = ArgOf(table, db.journal[Latest(done)].args)
            /\ \A n \in DOMAIN db.journal :
                  (db.journal[n].op = InsertOp(table) /\ db.journal[n].ok) =>
                      \E i \in DOMAIN rows :
                          rows[i].symbol = db.journal[n].args.symbol /\ rows[i].date = db.journal[n].args.date

\* a key was inserted twice with different values and the table holds the second
C23_Witness ==
    \E n, k \in DOMAIN db.journal :
        /\ n < k
        /\ db.journal[n].op = "insertPriceData" /\ db.journal[k].op = "insertPriceData"
        /\ db.journal[n].ok /\ db.journal[k].ok
        /\ db.journal[n].args.symbol = db.journal[k].args.symbol
        /\ db.journal[n].args.close # db.journal[k].args.close
        /\ k = Latest(InsertsFor("prices", db.journal[k].args.symbol, "d1"))
        /\ Len(db.prices) = 1
        /\ db.prices[1].close_price = db.journal[k].args.close

C24_Step ==
    /\ Len(db'.job_logs) \in {Len(db.job_logs), Len(db.job_logs) + 1}
    /\ SubSeq(db'.job_logs, 1, Len(db.job_logs)) = db.job_logs
    /\ reads' # reads =>
          /\ Len(reads'.rows) <= reads'.limit
          /\ db.job_logs # <<>> =>
                /\ reads'.rows # <<>>
                /\ reads'.rows[1] = db.job_logs[Len(db.job_logs)]

\* C24: logJob only adds a row to job_logs and no step changes or removes an
\* existing row; getJobLogs(limit) resolves with at most limit rows, the first
\* of which is the run logged most recently
C24_JobLogAppendOnlyNewestFirst == [][C24_Step]_vars

\* ----------------------------------------------- properties of the nightly jobs
JobOfType(jobType) ==
    CASE jobType = "prices" -> "PRICE_INGESTION"
      [] jobType = "delivery" -> "DELIVERY_INGESTION"
      [] jobType = "cleanup" -> "DATA_CLEANUP"
      [] OTHER -> "none"

ConfirmationOf(jobType) ==
    CASE jobType = "prices" -> "Price ingestion job triggered"
      [] jobType = "delivery" -> "Delivery ingestion job triggered"
      [] jobType = "cleanup" -> "Data cleanup job triggered"
      [] OTHER -> ""

\* the runs that start in this step
StartedNow == {j \in RunSlots : jobs[j].pc = "idle" /\ jobs'[j].pc # "idle"}

C25_Step ==
    /\ (web' # web /\ web'.route = "jobs/trigger") =>
          LET jobType == web'.query.jobType
          IN  IF jobType \in {"prices", "delivery", "cleanup"}
              THEN /\ web'.resp.status = 200
                   /\ web'.resp.message = ConfirmationOf(jobType)
                   /\ Cardinality(StartedNow) = 1
                   /\ \A j \in StartedNow : jobs'[j].name = JobOfType(jobType)
                   /\ \A j \in RunSlots \ StartedNow : jobs'[j] = jobs[j]
              ELSE /\ web'.resp.status = 400
                   /\ web'.resp.error = "Invalid job type"
                   /\ jobs' = jobs /\ stmts' = stmts /\ db' = db
    /\ \A j \in StartedNow :
          jobs'[j].via = "manual" =>
              /\ web'.route = "jobs/trigger"
              /\ jobs'[j].name = JobOfType(web'.query.jobType)

\* C25: POST /api/jobs/trigger/{jobType} starts exactly one run, of the price,
\* delivery or cleanup job for prices, delivery or cleanup, and confirms it; any
\* other jobType is answered 400 'Invalid job type' and starts nothing
C25_TriggerStartsNamedJob == [][C25_Step]_vars

\* a delivery run was started by the endpoint and has called the provider
C25_Witness ==
    /\ web.route = "jobs/trigger" /\ web.query.jobType = "delivery" /\ web.resp.status = 200
    /\ jobs[1].name = "DELIVERY_INGESTION" /\ jobs[1].via = "manual"
    /\ jobs[1].called # <<>>

PriceRuns == {j \in RunSlots : jobs[j].name = "PRICE_INGESTION"}

Finished(j) == jobs[j].pc \in {"done", "rejected"}

\* journal positions of the statements of run j
StatementsBy(j, op, oks) ==
    {n \in DOMAIN db.journal : db.journal[n].run = j /\ db.journal[n].op = op /\ db.journal[n].ok \in oks}

\* the symbols whose price row run j inserted
InsertedBy(j) == {db.journal[n].args.symbol : n \in StatementsBy(j, "insertPriceData", {TRUE})}

\* every symbol of the list was asked of the provider, once
ProcessedEverySymbol(j) ==
    /\ Len(jobs[j].called) = Len(symbolsList)
    /\ SeqToSet(jobs[j].called) = SeqToSet(symbolsList)

\* C26 as stated: every finished run of the price job has processed every
\* symbol and has appended exactly one job-log record, whose records_processed
\* is the number of symbols whose row the run inserted
C26_OneLogRecordPerRun ==
    \A j \in PriceRuns :
        Finished(j) =>
            /\ ProcessedEverySymbol(j)
            /\ Cardinality(StatementsBy(j, "logJob", {TRUE})) = 1
            /\ \A n \in StatementsBy(j, "logJob", {TRUE}) :
                  db.journal[n].args.records_processed = Cardinality(InsertedBy(j))

\* C26, amended: every finished run of the price job has processed every symbol
\* and has appended at most one job-log record; it has appended none only if
\* both of its logJob statements failed; the record's records_processed is the
\* number of symbols whose row the run inserted
C26_OneLogRecordUnlessLogFails ==
    \A j \in PriceRuns :
        /\ Cardinality(StatementsBy(j, "logJob", {TRUE})) <= 1
        /\ Finished(j) =>
              /\ ProcessedEverySymbol(j)
              /\ \/ Cardinality(StatementsBy(j, "logJob", {TRUE})) = 1
                 \/ Cardinality(StatementsBy(j, "logJob", {FALSE})) = 2
              /\ \A n \in StatementsBy(j, "logJob", {TRUE}) :
                    db.journal[n].args.records_processed = Cardinality(InsertedBy(j))

\* a run whose provider failed for one symbol and whose insert failed for
\* another has logged the one row it inserted
C26_Witness ==
    \E j \in PriceRuns :
        /\ jobs[j].pc = "done"
        /\ Len(jobs[j].called) = 3
        /\ Cardinality(StatementsBy(j, "insertPriceData", {FALSE})) = 1
        /\ Cardinality(InsertedBy(j)) = 1
        /\ \E n \in StatementsBy(j, "logJob", {TRUE}) :
              db.journal[n].args.status = "SUCCESS" /\ db.journal[n].args.records_processed = 1

\* a step of a job run or of the database
PersistenceStep == jobs' # jobs \/ stmts' # stmts \/ db' # db \/ reads' # reads

\* a step of fetchEquityDetailsInBatches or of an endpoint built on it
FetcherStep == call' # call \/ hist' # hist \/ resp' # resp

C27_Step ==
    /\ PersistenceStep => cache' = cache
    /\ \A j \in RunSlots : jobs'[j].ops \subseteq {"provider", "db"}
    /\ FetcherStep => UNCHANGED <<db, stmts, jobs, reads>>

\* C27: no step of an ingestion job or of the database reads or writes the
\* result cache, and no step of the batched fetcher or of the two endpoints
\* built on it issues a statement to, or changes, the persistence layer
C27_PathsNeverInteract == [][C27_Step]_vars

\* a price run has written a row while the quote of a market request is cached
C27_Witness ==
    /\ db.prices # <<>>
    /\ \E j \in RunSlots : jobs[j].pc = "done" /\ jobs[j].ops = {"provider", "db"}
    /\ call[1].kind \in {"market", "industry"} /\ call[1].pc = "done"
    /\ \E k \in DOMAIN cache : cache[k].present

\* ------------------------------------------------- properties of termination
\* the valid symbols of the call of slot r that the cache did not serve, one
\* entry per occurrence in the list
UncachedOf(r) ==
    SelectSeq(call[r].symbols,
              LAMBDA k : k \in allSymbolsSet /\ ~(UsedCache(r) /\ k \in hist[r].fresh))

RECURSIVE SumTried(_)
SumTried(tried) == IF tried = <<>> THEN 0 ELSE Head(tried) + SumTried(Tail(tried))

\* ceil(n / batchSize) * MAX_RETRIES
AttemptBound(r) ==
    ((Len(UncachedOf(r)) + call[r].batchSize - 1) \div call[r].batchSize) * MAX_RETRIES

Running(r) == call[r].pc \in {"await", "backoff", "delay"}

\* a call never makes more batch attempts than the bound
C31_AttemptsBounded ==
    \A r \in Slots : Active(r) => SumTried(hist[r].tried) <= AttemptBound(r)

\* a call leaves its await only in the step in which the last pending provider
\* call of the attempt settles
C31_Step ==
    \A r \in Slots :
        (call[r].pc = "await" /\ call'[r] # call[r]) =>
            /\ \E pos \in DOMAIN call[r].settled :
                  call[r].settled[pos] = Pending /\ hist'[r].raw[pos] # Pending
            /\ call'[r].pc # "await" => PendingCount(call[r].settled) = 1

\* C31: if every provider call settles, every call of the fetcher returns, after
\* at most ceil(n / batchSize) * MAX_RETRIES batch attempts for n uncached valid
\* symbols; while a provider call of the awaited attempt has not settled the
\* call does not move
C31_FetchTerminates ==
    /\ \A r \in Slots : Running(r) ~> (call[r].pc = "done")
    /\ []C31_AttemptsBounded
    /\ [][C31_Step]_vars

\* a call has returned after every one of its two batches took all five attempts
C31_Witness ==
    /\ call[1].pc = "done"
    /\ Len(call[1].batches) = 2
    /\ \A i \in DOMAIN hist[1].tried : hist[1].tried[i] = MAX_RETRIES
    /\ SumTried(hist[1].tried) = AttemptBound(1)

\* ------------------------------------------- properties of the delivery job
DeliveryRuns == {j \in RunSlots : jobs[j].name = "DELIVERY_INGESTION"}

\* C32: the delivery job issues its provider calls one at a time, and any two
\* consecutive provider calls of one run are at least 1 s apart, whatever the
\* earlier call did
C32_DeliveryCallsSpaced ==
    \A j \in DeliveryRuns :
        /\ jobs[j].pc = "provider" => jobs[j].index = Len(jobs[j].called)
        /\ \A i \in 1..(Len(jobs[j].calledAt) - 1) :
              jobs[j].calledAt[i + 1] - jobs[j].calledAt[i] >= DELIVERY_DELAY_MS

\* ------------------------------------------------ properties of the top lists
\* no two entries of a list of quotes carry the same symbol
DistinctSymbols(quotes) ==
    \A i, j \in DOMAIN quotes : i # j => quotes[i].symbol # quotes[j].symbol

\* C33: what a call of the fetcher returns holds at most one quote per symbol,
\* and no symbol is listed twice among the gainers or twice among the losers
\* of a market-data response
C33_OneQuotePerSymbol ==
    \A r \in Slots :
        (Active(r) /\ call[r].pc = "done") =>
            /\ DistinctSymbols(call[r].results)
            /\ (call[r].kind = "market" /\ resp[r].status = 200) =>
                  DistinctSymbols(resp[r].gainers) /\ DistinctSymbols(resp[r].losers)

\* the symbols listed both as a gainer and as a loser in the answer of slot r
InBothLists(r) ==
    {resp[r].gainers[i].symbol : i \in DOMAIN resp[r].gainers}
        \cap {resp[r].losers[i].symbol : i \in DOMAIN resp[r].losers}

\* how many of the quotes the fetch returned have pChange >= 0
NonNegativeCount(r) == Cardinality({i \in DOMAIN call[r].results : call[r].results[i].pChange >= 0})

EntryOf(entry, o, t) ==
    /\ ~o.rejected
    /\ ~o.value.isNull /\ o.value.hasPriceInfo /\ o.value.pChangeIsNumber /\ o.value.lastPriceIsNumber
    /\ entry.pChange = o.value.pChange
    /\ entry.lastPrice = o.value.lastPrice
    /\ entry.companyName = (IF o.value.companyName = "" THEN "Unknown" ELSE o.value.companyName)
    /\ entry.timestamp = t

\* a change of a symbol's entry writes the whole tuple of one answer that a call
\* awaiting its batch got for that symbol, stamped with the time of the write,
\* which is not before the stamp it replaces
C35_Step ==
    \A k \in DOMAIN cache :
        (k \in DOMAIN cache' /\ cache'[k] # cache[k]) =>
            /\ cache'[k].present
            /\ DOMAIN cache'[k] = {"present", "pChange", "lastPrice", "companyName", "timestamp", "expires"}
            /\ cache[k].present => cache'[k].timestamp >= cache[k].timestamp
            /\ \E r \in Slots :
                  /\ call[r].pc = "await"
                  /\ \E pos \in DOMAIN hist'[r].raw :
                        /\ call[r].batches[call[r].index][pos] = k
                        /\ hist'[r].raw[pos] # Pending
                        /\ EntryOf(cache'[k], hist'[r].raw[pos], now)

\* C35: under any interleaving of concurrent calls a symbol's cache entry is
\* the complete tuple of one single well-formed provider answer for the symbol
\* (the last write wins, two answers are never mixed), and the timestamp
\* stored under a symbol never decreases
C35_CacheEntriesAreWhole == [][C35_Step]_vars

\* a second call has written its answer for A while the first call, which has
\* a different answer for A in hand, still awaits the rest of its batch
C35_Witness ==
    /\ call[1].pc = "await"
    /\ call[1].batches[call[1].index] = <<"A", "B">>
    /\ hist[1].raw[1] = [rejected |-> FALSE, value |-> GoodPayload(-1, "Co")]
    /\ hist[1].raw[2] = Pending
    /\ call[2].pc = "done"
    /\ cache["A"].present
    /\ cache["A"].pChange = 2
    /\ cache["A"].companyName = "Unknown"

\* ------------------------------------------- properties of overlapping runs
IngestionJobs == {"PRICE_INGESTION", "DELIVERY_INGESTION"}

JobTable(name) == IF name = "PRICE_INGESTION" THEN "prices" ELSE "delivery_stats"

\* the values run j inserted into table for (symbol, date)
WrittenBy(j, table, symbol, date) ==
    {ArgOf(table, db.journal[n].args) :
        n \in {k \in StatementsBy(j, InsertOp(table), {TRUE}) :
                  db.journal[k].args.symbol = symbol /\ db.journal[k].args.date = date}}

RowsFor(table, symbol, date) ==
    {i \in DOMAIN db[table] : db[table][i].symbol = symbol /\ db[table][i].date = date}

\* C36: once two runs of the same ingestion job made on the same day have both
\* finished, the job's table holds exactly one row for every (symbol, date)
\* one of them inserted, and the row carries a value one of the two wrote
C36_OverlappingRunsLeaveOneRow ==
    \A a, b \in RunSlots :
        (/\ a < b
         /\ jobs[a].name \in IngestionJobs /\ jobs[a].name = jobs[b].name
         /\ jobs[a].today = jobs[b].today
         /\ Finished(a) /\ Finished(b)) =>
            LET table == JobTable(jobs[a].name)
                date == jobs[a].today
            IN  \A symbol \in SeqToSet(jobs[a].symbols) \cup SeqToSet(jobs[b].symbols) :
                    LET written == WrittenBy(a, table, symbol, date) \cup WrittenBy(b, table, symbol, date)
                    IN  written # {} =>
                            /\ Cardinality(RowsFor(table, symbol, date)) = 1
                            /\ \A i \in RowsFor(table, symbol, date) :
                                  ValueOf(table, db[table][i]) \in written

\* two price runs overlapped: both have finished, both wrote RELIANCE's row with
\* different values, and the row holds the value of the run that started first
C36_Witness ==
    /\ jobs[1].name = "PRICE_INGESTION" /\ jobs[2].name = "PRICE_INGESTION"
    /\ {jobs[1].via, jobs[2].via} = {"cron", "manual"}
    /\ Finished(1) /\ Finished(2)
    /\ WrittenBy(1, "prices", "RELIANCE", "d1") = {100}
    /\ WrittenBy(2, "prices", "RELIANCE", "d1") = {101}
    /\ \E i \in RowsFor("prices", "RELIANCE", "d1") : db.prices[i].close_price = 100
    /\ Cardinality(RowsFor("prices", "TCS", "d1")) = 1

\* --------------------------------------------------- properties of the startup
\* C37: the promise of initializeDatabase is resolved only when all three
\* tables have been created, and it is not resolved, and ends rejected, if the
\* creation of one of the tables failed
C37_ResolvesAfterAllTables ==
    /\ setup.promise = "resolved" => setup.created = SchemaTables
    /\ setup.failed # {} => setup.promise # "resolved"
    /\ (setup.failed # {} /\ setup.pending = {}) => setup.promise = "rejected"

\* the next request after i for the timeframe of i
NextForTimeframe(i, j) ==
    /\ i < j
    /\ tfLog[j].timeframe = tfLog[i].timeframe
    /\ \A k \in (i + 1)..(j - 1) : tfLog[k].timeframe # tfLog[i].timeframe

\* request i called the provider and neither it nor the quote cache gave a quote
YieldedNothing(i) ==
    /\ tfLog[i].values = <<>>
    /\ \E k \in KeyUniverse : tfLog[i].issued[k] > 0

\* C38: the timeframe cache never holds an empty result set, and the request
\* for a historical timeframe that follows one in which the provider gave no
\* quote calls the provider again
C38_EmptyResultNotCached ==
    /\ \A tf \in {"1w", "1m"} :
          LET entry == CacheGet(cache, TimeframeKey(tf, IndustrySymbols), now)
          IN  entry.present => entry.value # <<>>
    /\ \A i, j \in DOMAIN tfLog :
          (NextForTimeframe(i, j) /\ YieldedNothing(i)) =>
              \E k \in KeyUniverse : tfLog[j].issued[k] > 0

\* --------------------------------------------- properties of the industry labels
LabelQueries == PlainQueries \cup {[refresh |-> FALSE, timeframe |-> "1m"]}

LabelOutcomes ==
    {[rejected |-> TRUE, value |-> NullPayload], [rejected |-> FALSE, value |-> GoodPayload(2, "Co")]}

\* a server loaded from the spreadsheet with overlapping industries, with or
\* without FORCE_CACHE_BYPASS
InitLabel ==
    /\ now = 0
    /\ started = 0
    /\ bypass \in BOOLEAN
    /\ \E sheet \in AggSheets : Loaded([threw |-> FALSE, rows |-> sheet])
    /\ call = [r \in Slots |-> IdleCall]
    /\ hist = [r \in Slots |-> IdleHist]
    /\ resp = [r \in Slots |-> NoResponse]
    /\ InitRest

\* industry requests for today and for a historical timeframe, one after the
\* other: later ones are answered from the caches
NextLabel ==
    \/ IndustryData(1, AggCalls, NoThrow, LabelQueries)
    \/ Settle(1, LabelOutcomes)

SpecLabel == InitLabel /\ [][NextLabel]_vars

RegistryIndustries == {industryData[e].industry : e \in DOMAIN industryData}

\* the registry lists symbol under industry
RegistryMember(symbol, industry) ==
    \E e \in DOMAIN industryData :
        industryData[e].industry = industry /\ Contains(industryData[e].symbols, symbol)

IndustryAnswered(r) == call[r].kind = "industry" /\ call[r].pc = "done" /\ resp[r].status = 200

\* C39: in a response of /api/industry-data every industry label is an industry
\* of the registry, so "N/A" is a label only if the registry has it, every stock
\* listed under an industry is a registry member of that industry, and every
\* returned quote is listed under every registry industry that has its symbol
C39_LabelsAreRegistryIndustries ==
    \A r \in Slots :
        IndustryAnswered(r) =>
            /\ \A i \in DOMAIN resp[r].industries :
                  /\ resp[r].industries[i].industry \in RegistryIndustries
                  /\ "N/A" \notin RegistryIndustries => resp[r].industries[i].industry # "N/A"
                  /\ \A s \in DOMAIN resp[r].industries[i].stocks :
                        RegistryMember(resp[r].industries[i].stocks[s].symbol, resp[r].industries[i].industry)
            /\ \A q \in DOMAIN resp[r].stocks :
                  \A industry \in RegistryIndustries :
                      RegistryMember(resp[r].stocks[q].symbol, industry) =>
                          \E i \in DOMAIN resp[r].industries :
                              /\ resp[r].industries[i].industry = industry
                              /\ \E s \in DOMAIN resp[r].industries[i].stocks :
                                    resp[r].industries[i].stocks[s] = resp[r].stocks[q]

\* a quote of a symbol of two industries was returned from the timeframe cache
\* and is listed under both
C39_Witness ==
    \E r \in Slots :
        /\ IndustryAnswered(r)
        /\ resp[r].cached
        /\ IsHistorical(RequestedTimeframe(call[r].query))
        /\ \E q \in DOMAIN resp[r].stocks :
              Cardinality({industry \in RegistryIndustries :
                              RegistryMember(resp[r].stocks[q].symbol, industry)}) = 2
        /\ Len(resp[r].industries) = 2

====
